---- MODULE Spec2Model ----
(***************************************************************************)
(* The adaptive transcoding job engine of 8mb_local: one compress_video    *)
(* job of the Celery worker (src/worker/app/worker.py), the process-wide   *)
(* encoder validation cache it reads, the external encoder process it     *)
(* supervises, the cancel flag set by the API (src/backend-api/app/main.py)*)
(* and the publish sink its events go to.                                  *)
(***************************************************************************)
EXTENDS Integers, Sequences, FiniteSets, TLC

(***************************************************************************)
(* Bounds of the model.                                                    *)
(***************************************************************************)
\* Output lines one encoder process writes to its progress pipe.
MaxLines == 2
\* Largest value of Celery's request.retries a job is delivered with.
MaxRequestRetries == 2
\* Encoders whose test raises in one run of the validation battery, leaving
\* no record (startup_tests.py:411-414).
\* The seconds of wall clock a progress run covers and the events it publishes.
MaxNow == 5
MaxEmitted == 3
MaxSamples == 1
MaxProgressLines == 5

MaxErroredTests == 1

\* Encoders that fail in one run of the validation battery.
MaxFailingTests == 1

(***************************************************************************)
(* Program constants.                                                      *)
(***************************************************************************)
\* worker.py:868  max_wait = 10  (seconds; the poll checks max_wait * 5 times)
max_wait == 10
\* worker.py:870  range(max_wait * 5)
PollsPerSecond == 5
PollChecks == max_wait * PollsPerSecond
\* worker.py:910  max_retries = 2
max_retries == 2
\* worker.py:912  size_overage_percent > 2.0
OverageTriggerPct == 2

(***************************************************************************)
(* Encoder names (hw_detect.py).  Python's string tests on an encoder      *)
(* name (endswith, substring) are modelled by membership in the sets of    *)
(* names for which the test is true.                                       *)
(***************************************************************************)
CpuEncoders == {"libx264", "libx265", "libsvtav1", "libaom-av1"}
NvencEncoders == {"h264_nvenc", "hevc_nvenc", "av1_nvenc"}
QsvEncoders == {"h264_qsv", "hevc_qsv", "av1_qsv"}
VaapiEncoders == {"h264_vaapi", "hevc_vaapi", "av1_vaapi"}
AmfEncoders == {"h264_amf", "hevc_amf", "av1_amf"}
ExplicitHwEncoders == NvencEncoders \cup QsvEncoders \cup VaapiEncoders

\* encoder.endswith("_nvenc") and friends
EndsWithNvenc(e) == e \in NvencEncoders
EndsWithQsv(e) == e \in QsvEncoders
EndsWithVaapi(e) == e \in VaapiEncoders
EndsWithAmf(e) == e \in AmfEncoders

\* "h264" in name ; "hevc" in name or "h265" in name ; "av1" in name
ContainsH264(e) == e \in {"h264", "h264_nvenc", "h264_qsv", "h264_vaapi", "h264_amf"}
ContainsHevc(e) == e \in {"hevc", "h265", "hevc_nvenc", "hevc_qsv", "hevc_vaapi", "hevc_amf"}
ContainsAv1(e) == e \in {"av1", "av1_nvenc", "av1_qsv", "av1_vaapi", "av1_amf",
                         "libsvtav1", "libaom-av1"}

(***************************************************************************)
(* Hardware capabilities returned by detect_hw_accel.                      *)
(***************************************************************************)
DefaultVaapiDevice == "/dev/dri/renderD128"

NvidiaHw ==
  [type |-> "nvidia", decode_method |-> "cuda", vaapi_device |-> "None",
   available_encoders |-> [h264 |-> "h264_nvenc", hevc |-> "hevc_nvenc", av1 |-> "av1_nvenc"]]

IntelHw ==
  [type |-> "intel", decode_method |-> "qsv", vaapi_device |-> "None",
   available_encoders |-> [h264 |-> "h264_qsv", hevc |-> "hevc_qsv", av1 |-> "av1_qsv"]]

\* VAAPI found, vendor identified as AMD, no av1_vaapi encoder listed.
VaapiHw ==
  [type |-> "amd", decode_method |-> "vaapi", vaapi_device |-> DefaultVaapiDevice,
   available_encoders |-> [h264 |-> "h264_vaapi", hevc |-> "hevc_vaapi"]]

CpuHw ==
  [type |-> "cpu", decode_method |-> "None", vaapi_device |-> "None",
   available_encoders |-> [h264 |-> "libx264", hevc |-> "libx265", av1 |-> "libaom-av1"]]

HwInfos == {NvidiaHw, IntelHw, VaapiHw, CpuHw}

JobHwInfos == {NvidiaHw, CpuHw}

\* hw_info["available_encoders"].get(base, "libx264")
AvailableEncoder(hw_info, base) ==
  IF base \in DOMAIN hw_info.available_encoders
  THEN hw_info.available_encoders[base]
  ELSE "libx264"

(***************************************************************************)
(* detect_hw_accel and its probes (hw_detect.py:10-243).  Each external    *)
(* query has an outcome: the text it printed, a non-zero exit, or an       *)
(* exception of subprocess.run: FileNotFoundError ("missing"),             *)
(* TimeoutExpired ("timeout"), or another one ("error": PermissionError    *)
(* on a binary that cannot be executed, OSError, UnicodeDecodeError).      *)
(***************************************************************************)
\* The exceptions the probes catch (hw_detect.py:98,114,155,221,234,240).
Caught == {"missing", "timeout"}

\* ffmpeg -hwaccels and ffmpeg -encoders: the names found in stdout.
HwaccelsOutcomes ==
  [status : {"ok"}, out : {{}, {"cuda"}, {"qsv"}, {"vaapi"}, {"qsv", "vaapi"}}]
    \cup [status : {"missing", "error"}, out : {{}}]

EncodersOutcomes ==
  [status : {"ok"},
   out : {{}, {"h264_qsv"}, {"h264_vaapi"}, {"h264_vaapi", "av1_vaapi"},
          {"h264_qsv", "h264_vaapi"}}]
    \cup [status : {"timeout", "error"}, out : {{}}]

\* vainfo and lspci: the vendor the output names, or the exception.
VendorOutcomes == {"intel", "amd", "other", "missing", "error"}

\* Every combination of outcomes of the queries of one detection.
Probes ==
  [smi_query : {"ok", "nonzero", "missing", "timeout", "error"},
   smi_list : {"ok", "nonzero", "error"},
   hwaccels : HwaccelsOutcomes,
   nvidia_dev : BOOLEAN,
   render_nodes : BOOLEAN,
   encoders : EncodersOutcomes,
   vainfo : VendorOutcomes,
   lspci : VendorOutcomes]

\* _check_nvidia (hw_detect.py:77-117): "yes", "no" or "raise".
CheckNvidia(p) ==
  LET smi ==
        IF p.smi_query = "ok" THEN "yes"
        ELSE IF p.smi_query \in Caught THEN "no"
        ELSE IF p.smi_query = "error" THEN "raise"
        ELSE \* non-zero exit: nvidia-smi -L
          IF p.smi_list = "ok" THEN "yes"
          ELSE IF p.smi_list = "error" THEN "raise"
          ELSE "no"
      ffmpeg ==
        IF p.hwaccels.status \in Caught THEN "no"
        ELSE IF p.hwaccels.status = "error" THEN "raise"
        ELSE IF "cuda" \in p.hwaccels.out /\ p.nvidia_dev THEN "yes"
        ELSE "no"
  IN IF smi = "no" THEN ffmpeg ELSE smi

\* _check_intel_qsv (hw_detect.py:120-158).
CheckIntelQsv(p) ==
  IF ~p.render_nodes THEN "no"
  ELSE IF p.hwaccels.status \in Caught THEN "no"
  ELSE IF p.hwaccels.status = "error" THEN "raise"
  ELSE IF "qsv" \notin p.hwaccels.out THEN "no"
  ELSE IF p.encoders.status \in Caught THEN "no"
  ELSE IF p.encoders.status = "error" THEN "raise"
  ELSE IF "h264_qsv" \in p.encoders.out THEN "yes"
  ELSE "no"

VaapiAbsent ==
  [raised |-> FALSE, available |-> FALSE, vendor |-> "unknown",
   device |-> DefaultVaapiDevice, av1_supported |-> FALSE]

VaapiRaised == [VaapiAbsent EXCEPT !.raised = TRUE]

\* _check_vaapi (hw_detect.py:161-243).
CheckVaapi(p) ==
  IF ~p.render_nodes THEN VaapiAbsent
  ELSE IF p.hwaccels.status \in Caught THEN VaapiAbsent
  ELSE IF p.hwaccels.status = "error" THEN VaapiRaised
  ELSE IF "vaapi" \notin p.hwaccels.out THEN VaapiAbsent
  ELSE IF p.encoders.status \in Caught THEN VaapiAbsent
  ELSE IF p.encoders.status = "error" THEN VaapiRaised
  ELSE IF "h264_vaapi" \notin p.encoders.out THEN VaapiAbsent
  ELSE
    LET found == [VaapiAbsent EXCEPT !.available = TRUE,
                                     !.av1_supported = ("av1_vaapi" \in p.encoders.out)]
    IN IF p.vainfo = "error" THEN VaapiRaised
       ELSE IF p.vainfo \in {"intel", "amd"} THEN [found EXCEPT !.vendor = p.vainfo]
       ELSE IF p.vainfo = "other" THEN found
       ELSE \* vainfo is missing: lspci
         IF p.lspci = "error" THEN VaapiRaised
         ELSE IF p.lspci \in {"intel", "amd"} THEN [found EXCEPT !.vendor = p.lspci]
         ELSE found

\* The capability of a VAAPI device (hw_detect.py:54-66).
VaapiInfo(v) ==
  [type |-> v.vendor, decode_method |-> "vaapi", vaapi_device |-> v.device,
   available_encoders |->
     IF v.av1_supported
     THEN [h264 |-> "h264_vaapi", hevc |-> "hevc_vaapi", av1 |-> "av1_vaapi"]
     ELSE [h264 |-> "h264_vaapi", hevc |-> "hevc_vaapi"]]

NotDetected == [raised |-> FALSE, info |-> CpuHw]

\* detect_hw_accel (hw_detect.py:10-74): the capability, or the exception
\* a probe let through.
detect_hw_accel(p) ==
  IF CheckNvidia(p) = "raise" THEN [raised |-> TRUE, info |-> CpuHw]
  ELSE IF CheckNvidia(p) = "yes" THEN [raised |-> FALSE, info |-> NvidiaHw]
  ELSE IF CheckIntelQsv(p) = "raise" \/ CheckVaapi(p).raised THEN
    [raised |-> TRUE, info |-> CpuHw]
  ELSE IF CheckIntelQsv(p) = "yes" THEN [raised |-> FALSE, info |-> IntelHw]
  ELSE IF CheckVaapi(p).available THEN [raised |-> FALSE, info |-> VaapiInfo(CheckVaapi(p))]
  ELSE [raised |-> FALSE, info |-> CpuHw]

(***************************************************************************)
(* map_codec_to_hw (hw_detect.py:246-328).                                 *)
(***************************************************************************)
QsvInitFlags ==
  <<"-init_hw_device", "qsv=hw", "-hwaccel", "qsv", "-hwaccel_output_format", "qsv">>

\* f"vaapi=va:{vaapi_device}" with hw_info.get("vaapi_device") or the default
VaapiDeviceArg(dev) ==
  CASE dev = "/dev/dri/renderD128" -> "vaapi=va:/dev/dri/renderD128"
    [] dev = "/dev/dri/renderD129" -> "vaapi=va:/dev/dri/renderD129"

VaapiInitFlags(hw_info) ==
  LET dev == IF hw_info.vaapi_device = "None" THEN DefaultVaapiDevice
             ELSE hw_info.vaapi_device
  IN <<"-init_hw_device", VaapiDeviceArg(dev), "-hwaccel", "vaapi",
       "-hwaccel_output_format", "vaapi", "-hwaccel_device", "va">>

\* The family-appropriate flags of a hardware (or nominal) encoder.
HwFlags(encoder, hw_info, isH264, isHevc, legacy) ==
  IF EndsWithNvenc(encoder) THEN
    [flags |-> <<"-pix_fmt", "yuv420p">>
                 \o (IF isH264 THEN <<"-profile:v", "high">>
                     ELSE IF isHevc THEN <<"-profile:v", "main">> ELSE <<>>),
     init_flags |-> <<>>]
  ELSE IF EndsWithQsv(encoder) THEN
    [flags |-> <<"-pix_fmt", "nv12">>
                 \o (IF isH264 THEN <<"-profile:v", "high">> ELSE <<>>),
     init_flags |-> QsvInitFlags]
  ELSE IF EndsWithVaapi(encoder) THEN
    [flags |-> <<"-vf", "format=nv12|vaapi,hwupload">>,
     init_flags |-> VaapiInitFlags(hw_info)]
  ELSE IF legacy /\ encoder = "libx264" THEN
    [flags |-> <<"-pix_fmt", "yuv420p", "-profile:v", "high">>, init_flags |-> <<>>]
  ELSE IF legacy /\ encoder = "libx265" THEN
    [flags |-> <<"-pix_fmt", "yuv420p">>, init_flags |-> <<>>]
  ELSE [flags |-> <<>>, init_flags |-> <<>>]

\* A mapping without the branch of the explicit CPU tokens: every token is
\* resolved through the capability.
map_codec_to_hw_NoCpuBranch(requested_codec, hw_info) ==
  LET encoder == AvailableEncoder(hw_info, "h264")
      f == HwFlags(encoder, hw_info, TRUE, FALSE, TRUE)
  IN [encoder |-> encoder, flags |-> f.flags, init_flags |-> f.init_flags]

map_codec_to_hw(requested_codec, hw_info) ==
  IF requested_codec \in {"libx264", "libx265", "libsvtav1", "libaom-av1"} THEN
    LET encoder == IF requested_codec # "libsvtav1" THEN requested_codec ELSE "libaom-av1"
    IN [encoder |-> encoder,
        flags |-> IF encoder = "libx264" THEN <<"-pix_fmt", "yuv420p", "-profile:v", "high">>
                  ELSE IF encoder = "libx265" THEN <<"-pix_fmt", "yuv420p">>
                  ELSE <<>>,
        init_flags |-> <<>>]
  ELSE IF requested_codec \in ExplicitHwEncoders THEN
    LET f == HwFlags(requested_codec, hw_info, ContainsH264(requested_codec),
                     ContainsHevc(requested_codec), FALSE)
    IN [encoder |-> requested_codec, flags |-> f.flags, init_flags |-> f.init_flags]
  ELSE
    LET base == IF ContainsH264(requested_codec) THEN "h264"
                ELSE IF ContainsHevc(requested_codec) THEN "hevc"
                ELSE IF ContainsAv1(requested_codec) THEN "av1"
                ELSE "h264"
        encoder == AvailableEncoder(hw_info, base)
        f == HwFlags(encoder, hw_info, base = "h264", base = "hevc", TRUE)
    IN [encoder |-> encoder, flags |-> f.flags, init_flags |-> f.init_flags]

(***************************************************************************)
(* The validation cache key  f"{encoder}:{':'.join(init_hw_flags)}"        *)
(* (worker.py:173, startup_tests.py:331,348).  The string is modelled as   *)
(* the sequence of its ':'-separated fields.                               *)
(***************************************************************************)
\* The ':'-separated fields of one flag.
ColonFields(flag) ==
  CASE flag = "vaapi=va:/dev/dri/renderD128" -> <<"vaapi=va", "/dev/dri/renderD128">>
    [] flag = "vaapi=va:/dev/dri/renderD129" -> <<"vaapi=va", "/dev/dri/renderD129">>
    [] OTHER -> <<flag>>

RECURSIVE JoinColon(_)
JoinColon(flags) ==
  IF flags = <<>> THEN <<"">>
  ELSE IF Len(flags) = 1 THEN ColonFields(flags[1])
  ELSE ColonFields(flags[1]) \o JoinColon(Tail(flags))

cache_key(encoder, init_hw_flags) == <<encoder>> \o JoinColon(init_hw_flags)

(***************************************************************************)
(* run_startup_tests (startup_tests.py:225-444): the cache it returns.     *)
(***************************************************************************)
TestCodecs(hw_info) ==
  (CASE hw_info.type = "nvidia" -> NvencEncoders
     [] hw_info.type = "intel" -> QsvEncoders
     [] hw_info.type \in {"amd", "vaapi"} -> VaapiEncoders
     [] OTHER -> {})
  \cup {"libx264", "libx265", "libaom-av1"}

\* The keys one run of the battery writes: a hardware codec that maps to a
\* CPU encoder is skipped.
TestedKeys(hw_info) ==
  {cache_key(map_codec_to_hw(c, hw_info).encoder, map_codec_to_hw(c, hw_info).init_flags) :
     c \in {c \in TestCodecs(hw_info) :
              map_codec_to_hw(c, hw_info).encoder \in {"libx264", "libx265", "libaom-av1"}
                => c \in {"libx264", "libx265", "libaom-av1"}}}

\* Every cache one run can return: the encode test of each key passes or fails.
StartupTestResults(hw_info) ==
  {r \in [TestedKeys(hw_info) -> BOOLEAN] :
     Cardinality({k \in TestedKeys(hw_info) : ~r[k]}) <= MaxFailingTests}

\* ENCODER_TEST_CACHE.update(cache)
DictUpdate(old, new) ==
  [k \in DOMAIN old \cup DOMAIN new |-> IF k \in DOMAIN new THEN new[k] ELSE old[k]]

EmptyDict == [k \in {} |-> FALSE]

(***************************************************************************)
(* choose_best_codec (hw_detect.py:343-451).                               *)
(***************************************************************************)
\* The encoder_test_cache argument: a dict, or None (the caller of main.py:869).
DictCache(d) == [given |-> TRUE, dict |-> d]
NoneCache == [given |-> FALSE, dict |-> EmptyDict]

\* name.startswith("lib")
StartsWithLib(e) == e \in CpuEncoders

hw_priority == <<"av1", "hevc", "h264">>

\* The order in which run_startup_tests inserts the keys of its cache
\* (startup_tests.py:263-298), which is the order of encoder_test_cache.keys().
KeyOrder ==
  <<"h264_nvenc", "hevc_nvenc", "av1_nvenc", "h264_qsv", "hevc_qsv", "av1_qsv",
    "h264_vaapi", "hevc_vaapi", "av1_vaapi", "libx264", "libx265", "libaom-av1">>

\* The Redis keys encoder_test:{name} hold "1" or "0", or are not set; Redis
\* may not answer.
RedisGet(redis, name) ==
  IF redis.up /\ name \in DOMAIN redis.flags THEN redis.flags[name] ELSE "nil"

\* _encoder_passed (hw_detect.py:358-386): "pass", "fail" or "unknown" (None).
EncoderPassed(base_codec, encoder_name, init_flags, cache, redis) ==
  LET exact == cache_key(encoder_name, init_flags)
      \* keys that start with "{encoder_name}:"; a cache of run_startup_tests
      \* holds one key for an encoder
      prefixed == IF ~cache.given THEN {}
                  ELSE {k \in DOMAIN cache.dict : k[1] = encoder_name}
      first == CHOOSE k \in prefixed : TRUE
  IN IF cache.given /\ exact \in DOMAIN cache.dict THEN
       (IF cache.dict[exact] THEN "pass" ELSE "fail")
     ELSE IF prefixed # {} THEN
       (IF cache.dict[first] THEN "pass" ELSE "fail")
     ELSE IF ~redis.up THEN "unknown"
     ELSE IF RedisGet(redis, encoder_name) # "nil" THEN
       (IF RedisGet(redis, encoder_name) = "1" THEN "pass" ELSE "fail")
     ELSE IF RedisGet(redis, base_codec) # "nil" THEN
       (IF RedisGet(redis, base_codec) = "1" THEN "pass" ELSE "fail")
     ELSE "unknown"

\* hw_detect.py:391-398: one candidate per family the capability lists.
RECURSIVE InfoCandidates(_, _)
InfoCandidates(bases, hw_info) ==
  IF bases = <<>> THEN <<>>
  ELSE
    LET base == Head(bases)
        m == map_codec_to_hw(base, hw_info)
        rest == InfoCandidates(Tail(bases), hw_info)
    IN IF base \in DOMAIN hw_info.available_encoders
       THEN <<[base |-> base, encoder |-> m.encoder, flags |-> m.flags,
               init_flags |-> m.init_flags, hardware |-> ~StartsWithLib(m.encoder)]>> \o rest
       ELSE rest

\* hw_detect.py:405-414: the family of an encoder named by a cache key.
KeyBase(enc_name) ==
  IF ContainsAv1(enc_name) THEN "av1"
  ELSE IF ContainsHevc(enc_name) THEN "hevc"
  ELSE IF ContainsH264(enc_name) THEN "h264"
  ELSE enc_name

\* hw_detect.py:401-418: the encoders of the cache keys no candidate names yet.
RECURSIVE CacheCandidates(_, _, _)
CacheCandidates(names, cache, cands) ==
  IF names = <<>> THEN cands
  ELSE
    LET enc_name == Head(names)
        keyed == \E k \in DOMAIN cache.dict : k[1] = enc_name
        known == \E i \in DOMAIN cands : cands[i].encoder = enc_name
    IN CacheCandidates(Tail(names), cache,
         IF keyed /\ ~known
         THEN Append(cands, [base |-> KeyBase(enc_name), encoder |-> enc_name, flags |-> <<>>,
                             init_flags |-> <<>>, hardware |-> ~StartsWithLib(enc_name)])
         ELSE cands)

Candidates(hw_info, cache) ==
  LET from_info == InfoCandidates(<<"h264", "hevc", "av1">>, hw_info)
  IN IF ~cache.given THEN from_info
     ELSE CacheCandidates(KeyOrder, cache, from_info)

\* hw_detect.py:421-444: the choice within one family, <<>> when there is none.
FamilyChoice(base, cands, cache, redis) ==
  LET of_base == SelectSeq(cands, LAMBDA c : c.base = base)
      passed == SelectSeq(of_base, LAMBDA c :
                  EncoderPassed(c.base, c.encoder, c.init_flags, cache, redis) = "pass")
      unknown_hw == SelectSeq(of_base, LAMBDA c :
                      c.hardware /\
                      EncoderPassed(c.base, c.encoder, c.init_flags, cache, redis) = "unknown")
      cpu == SelectSeq(of_base, LAMBDA c : ~c.hardware)
  IN IF passed # <<>> THEN <<Head(passed)>>
     ELSE IF unknown_hw # <<>> THEN <<[Head(unknown_hw) EXCEPT !.hardware = TRUE]>>
     ELSE IF cpu # <<>> THEN <<[Head(cpu) EXCEPT !.hardware = FALSE]>>
     ELSE <<>>

\* hw_detect.py:446-451: the default when no family gave a choice.
DefaultChoice(hw_info) ==
  LET m == map_codec_to_hw("h264", hw_info)
  IN [base |-> "h264", encoder |-> m.encoder, flags |-> m.flags,
      init_flags |-> m.init_flags, hardware |-> FALSE]

choose_best_codec(hw_info, cache, redis) ==
  LET cands == Candidates(hw_info, cache)
      av1 == FamilyChoice(hw_priority[1], cands, cache, redis)
      hevc == FamilyChoice(hw_priority[2], cands, cache, redis)
      h264 == FamilyChoice(hw_priority[3], cands, cache, redis)
  IN IF av1 # <<>> THEN av1[1]
     ELSE IF hevc # <<>> THEN hevc[1]
     ELSE IF h264 # <<>> THEN h264[1]
     ELSE DefaultChoice(hw_info)

\* VAAPI found with an AV1 encoder, vendor not identified.
VaapiUnknownHw ==
  VaapiInfo([VaapiAbsent EXCEPT !.available = TRUE, !.av1_supported = TRUE])

\* _HW_INFO before the first get_hw_info (hw_detect.py:332).
NoHwInfo ==
  [type |-> "None", decode_method |-> "None", vaapi_device |-> "None",
   available_encoders |-> [h264 |-> "None"]]

\* The capabilities choose_best_codec is called with.
ChooseHwInfos == HwInfos \cup {VaapiUnknownHw}

\* The caches run_startup_tests can leave for a capability: a record for
\* every tested key, passing or failing, but for the tests that raised; or
\* no record at all before the first run.
TestRunCaches(hw_info) ==
  {EmptyDict} \cup
  UNION {[TestedKeys(hw_info) \ E -> BOOLEAN] :
           E \in {E \in SUBSET TestedKeys(hw_info) : Cardinality(E) <= MaxErroredTests}}

\* The Redis flags encoder_test:{codec} of the capability's families
\* (startup_tests.py:403-420), each "1", "0" or not set; or Redis down.
RedisStates(hw_info) ==
  LET names == {hw_info.available_encoders[b] : b \in DOMAIN hw_info.available_encoders}
  IN {[up |-> TRUE, flags |-> f] : f \in UNION {[S -> {"0", "1"}] : S \in SUBSET names}}
       \cup {[up |-> FALSE, flags |-> [n \in {} |-> "0"]]}

(***************************************************************************)
(* Inputs of a job and of its environment.                                 *)
(***************************************************************************)
\* Requested video codec tokens (compress_video's video_codec): the explicit
\* CPU encoders, the explicit hardware encoders, the codec families, a token
\* of the legacy path and an unknown token.
VideoCodecs ==
  {"libx264", "libx265", "libsvtav1", "libaom-av1"} \cup ExplicitHwEncoders
    \cup {"h264", "hevc", "av1", "hevc_amf", "vp9"}

\* The tokens and capabilities the whole-job specifications draw from: a CPU
\* encoder, a family resolved by the capability, an explicit hardware encoder
\* the validation battery of the capability does not test.
JobVideoCodecs == {"libx264", "h264", "hevc_qsv"}

\* What the job's input is, as far as the command depends on it: the codec
\* ffprobe reports (worker.py:431; hevc goes the way of h264, vp9 stands for
\* every other codec), whether the av1_cuvid decoder is usable (forced and
\* present, or its preflight passes, worker.py:490,499; consulted for AV1
\* input only) and whether a scale filter was requested (vf_filters not
\* empty, worker.py:361-371; on AV1 input it is treated as on H.264 input).
Inputs ==
  {m \in [in_codec : {"h264", "av1", "vp9"}, av1_cuvid : BOOLEAN, vf_filters : BOOLEAN] :
     /\ m.av1_cuvid => m.in_codec = "av1"
     /\ m.vf_filters => m.in_codec # "av1"}

\* The options of the request that reach the command beside the encoder:
\* which of start_time and end_time are given (worker.py:377-414), whether
\* the audio is removed (280-283), and the container with its finalize mode
\* (341-348).
Options ==
  [trim : {"none", "start", "end", "both"}, mute : BOOLEAN,
   container : {"mkv", "mp4", "mp4_fast"}]

DefaultOptions == [trim |-> "none", mute |-> FALSE, container |-> "mp4_fast"]

WithOptions(m, o) ==
  [in_codec |-> m.in_codec, av1_cuvid |-> m.av1_cuvid, vf_filters |-> m.vf_filters,
   trim |-> o.trim, mute |-> o.mute, container |-> o.container]

\* The inputs of the selection step: no trim, audio kept, fast finalize.
Media == {WithOptions(m, DefaultOptions) : m \in Inputs}

\* Every input with every combination of options.
FallbackMedia == {WithOptions(m, o) : m \in Inputs, o \in Options}

\* The input of the whole-job specifications: an H.264 file, no scaling.
JobMedia ==
  {WithOptions([in_codec |-> "h264", av1_cuvid |-> FALSE, vf_filters |-> FALSE],
               DefaultOptions)}

\* What one line of the encoder's progress pipe is: blank, free text or a
\* non-progress key=value (published as a log), or a progress key=value.
LineKinds == {"blank", "text", "progress"}

\* os.path.exists / getsize / open of the output file.
FileStates == {"absent", "empty", "locked", "ready"}

\* Size of a written output file, in percent of target_size_mb.
SizePcts == {100, 105, 160}

(***************************************************************************)
(* State.                                                                  *)
(***************************************************************************)
VARIABLES
  hw_info,             \* hw_detect._HW_INFO: the capability detected for this worker
  media,               \* the job's input: in_codec, av1_cuvid usable, vf_filters
  ENCODER_TEST_CACHE,  \* worker.ENCODER_TEST_CACHE: cache key -> passed
  cancel_flag,         \* Redis key cancel:{task_id}
  sink_up,             \* whether Redis (publish sink, cancel flag store) answers
  pc,                  \* position of compress_video
  video_codec,         \* the job's requested codec token
  original_encoder,    \* the encoder map_codec_to_hw resolved
  actual_encoder,      \* the encoder in use
  v_flags,
  init_hw_flags,
  cmd,                 \* the command of the initial attempt
  command,             \* the argument of the run_ffmpeg_and_stream call under way
  attempt,             \* which run_ffmpeg_and_stream call: initial, fallback, retry
  procs,               \* every process launched: [kind, cmd, state, rc, cancelled]
  pipe,                \* number of lines written by the current process and not yet read
  written,             \* lines the current process has written
  cancelled,           \* run_ffmpeg_and_stream's local flag
  emitted_initial_progress, \* run_ffmpeg_and_stream's local flag
  rc,                  \* (rc, was_cancelled) as returned by run_ffmpeg_and_stream
  was_cancelled,
  polls,               \* iterations of the verification poll done
  file,                \* state of the file at output_path
  file_size,           \* its size in percent of the target (0: none)
  final_size_mb,       \* stats.final_size_mb, in percent of the target
  retry_attempt,       \* self.request.retries or 0
  events,              \* events published, in order (streamed log lines left out)
  history,             \* entries added to the history
  outcome,             \* None, Done, Cancelled, Failed
  fail_cause,          \* for Failed: what raised
  failing_at_select,   \* history: the cache held False for the resolved key at selection
  cancel_during_encode,\* history: the cancel flag was set while an encoder ran
  key_in_cache,        \* compress_video: result of "cache_key in ENCODER_TEST_CACHE"
  now,                 \* time.time(), in seconds since start_ts
  last_update_time,    \* run_ffmpeg_and_stream's locals and nonlocals
  current_time_s,
  last_time_s,
  current_size_bytes,
  speed_ewma,          \* in hundredths; 0 is None
  last_progress,       \* in 1/10000
  emitted,             \* progress events of phase encoding published by the attempt
  sample,              \* history: how the last out_time_ms line was handled
  probe,               \* outcomes of detect_hw_accel's external queries
  detected,            \* what detect_hw_accel did: [raised, info]
  redis_tests,         \* Redis keys encoder_test:{name}: name -> "1" / "0"
  cache_arg,           \* choose_best_codec's encoder_test_cache argument
  preferred,           \* what choose_best_codec returned
  bitrate,             \* the bitrate budget of a job, its command and its size retry
  tests,               \* what the external tests of the battery do: codec -> outcome
  phases,              \* the progress events of a job: [stage, container, published, ...]
  input_has_audio,     \* the job's input: whether the file has an audio stream
  smoke,               \* a test_encoder_init call: [stage, encoder_name, run, result]
  hw_calls             \* the get_hw_info calls under way: thread -> [pc, returned], and the
                       \* number of detect_hw_accel executions

progVars ==
  <<now, last_update_time, current_time_s, last_time_s, current_size_bytes, speed_ewma,
    last_progress, emitted, sample>>
detectVars == <<probe, detected>>
chooseVars == <<redis_tests, cache_arg, preferred>>
extraVars == <<phases, input_has_audio, smoke, hw_calls>>
sideVars == <<media, key_in_cache, progVars, detectVars, chooseVars, bitrate, tests, extraVars>>

jobVars ==
  <<hw_info, ENCODER_TEST_CACHE, cancel_flag, sink_up, pc, video_codec, original_encoder,
    actual_encoder, v_flags, init_hw_flags, cmd, command, attempt, procs, pipe, written,
    cancelled, emitted_initial_progress, rc, was_cancelled, polls, file, file_size, final_size_mb,
    retry_attempt, events, history, outcome, fail_cause, failing_at_select,
    cancel_during_encode>>

vars == <<jobVars, sideVars>>

cmdVars == <<cmd, command, attempt>>
globalVars == <<hw_info, video_codec, ENCODER_TEST_CACHE, cancel_flag, sink_up>>
selectVars == <<original_encoder, actual_encoder, v_flags, init_hw_flags, failing_at_select>>
procVars == <<procs, pipe, written>>
fileVars == <<file, file_size>>
streamVars == <<cancelled, emitted_initial_progress, rc, was_cancelled>>
resultVars == <<events, history, outcome, fail_cause>>

\* The variables of the functions a specification does not exercise keep
\* their initial values.
NoProbe ==
  [smi_query |-> "missing", smi_list |-> "nonzero",
   hwaccels |-> [status |-> "missing", out |-> {}], nvidia_dev |-> FALSE,
   render_nodes |-> FALSE, encoders |-> [status |-> "timeout", out |-> {}],
   vainfo |-> "missing", lspci |-> "missing"]

NoRedisTests == [up |-> TRUE, flags |-> [n \in {} |-> "0"]]

NoChoice ==
  [base |-> "None", encoder |-> "None", flags |-> <<>>, init_flags |-> <<>>,
   hardware |-> FALSE]

\* No out_time_ms line was handled by the last step. time_start is the
\* local of worker.py:647 (0: never assigned), restarted whether the attempt
\* has detected a restart.
NoSample ==
  [kind |-> "None", restart |-> FALSE, restarted |-> FALSE, time_start |-> 0, now |-> 0,
   elapsed |-> 0, size |-> 0, speed |-> 0, scaled |-> 0, previous |-> 0, passed |-> FALSE,
   since |-> 0, emitted |-> FALSE]

ProgressStart ==
  /\ sample = NoSample
  /\ now = 0
  /\ last_update_time = 0
  /\ current_time_s = 0
  /\ last_time_s = 0
  /\ current_size_bytes = 0
  /\ speed_ewma = 0
  /\ last_progress = 0
  /\ emitted = <<>>

\* No bitrate budget is being computed.
NoBitrate == [stage |-> "None"]

\* No progress events are being followed.
NoPhases == [stage |-> "None"]

\* No thread is calling get_hw_info.
NoCalls == [threads |-> <<>>, detect_runs |-> 0]

\* No encode smoke test is being followed.
NoSmoke == [stage |-> "None"]

ExtraIdle ==
  phases = NoPhases /\ input_has_audio = TRUE /\ smoke = NoSmoke /\ hw_calls = NoCalls

BitrateIdle == bitrate = NoBitrate /\ tests = EmptyDict /\ ExtraIdle

DetectStart == probe = NoProbe /\ detected = NotDetected

ChooseStart == redis_tests = NoRedisTests /\ cache_arg = NoneCache /\ preferred = NoChoice

NoCmd ==
  [encoder |-> "None", init_hw_flags |-> <<>>, input_opts |-> <<>>,
   duration_opts |-> <<>>, v_flags |-> <<>>, vf |-> "None", rate |-> "None",
   audio |-> <<>>, mp4_flags |-> <<>>]

JobStart ==
  /\ ENCODER_TEST_CACHE = EmptyDict
  /\ cancel_flag = FALSE
  /\ sink_up = TRUE
  /\ pc = "queued"
  /\ original_encoder = "None"
  /\ actual_encoder = "None"
  /\ v_flags = <<>>
  /\ init_hw_flags = <<>>
  /\ cmd = NoCmd
  /\ command = NoCmd
  /\ attempt = "None"
  /\ procs = <<>>
  /\ pipe = 0
  /\ written = 0
  /\ cancelled = FALSE
  /\ emitted_initial_progress = FALSE
  /\ rc = 0
  /\ was_cancelled = FALSE
  /\ polls = 0
  /\ file = "absent"
  /\ file_size = 0
  /\ final_size_mb = 0
  /\ retry_attempt = 0
  /\ events = <<>>
  /\ history = 0
  /\ outcome = "None"
  /\ fail_cause = "None"
  /\ failing_at_select = FALSE
  /\ cancel_during_encode = FALSE

Init ==
  /\ BitrateIdle
  /\ hw_info \in JobHwInfos
  /\ video_codec \in JobVideoCodecs
  /\ media \in JobMedia
  /\ JobStart
  /\ key_in_cache = FALSE
  /\ ProgressStart
  /\ DetectStart
  /\ ChooseStart

\* The tokens of the fallback specification: the three families, a hardware
\* encoder no capability offers, a CPU encoder.
FallbackVideoCodecs == {"h264", "hevc", "av1", "hevc_amf", "libx264"}

\* Every capability, every input and every combination of options, for the
\* commands of the initial attempt and of the CPU fallback.
InitFallback ==
  /\ BitrateIdle
  /\ hw_info \in HwInfos
  /\ video_codec \in FallbackVideoCodecs
  /\ media \in FallbackMedia
  /\ JobStart
  /\ key_in_cache = FALSE
  /\ ProgressStart
  /\ DetectStart
  /\ ChooseStart

\* Every capability and every token, for the selection step.
InitSelect ==
  /\ BitrateIdle
  /\ hw_info \in HwInfos
  /\ video_codec \in VideoCodecs
  /\ media \in Media
  /\ JobStart
  /\ key_in_cache = FALSE
  /\ ProgressStart
  /\ DetectStart
  /\ ChooseStart

(***************************************************************************)
(* Events.                                                                 *)
(***************************************************************************)
Ev(type, tag) == [type |-> type, tag |-> tag]

\* _publish (worker.py:97-99) has no handler of its own: with the sink down
\* the call raises, and the exception leaves compress_video unless the
\* caller catches it.
PublishRaises == ~sink_up

\* The job ends: an exception leaves compress_video, or it returns.
End(result, cause, evs) ==
  /\ pc' = "end"
  /\ outcome' = result
  /\ fail_cause' = cause
  /\ events' = events \o evs

\* An unprotected _publish raised.
PublishCrash ==
  /\ End("Failed", "publish", <<>>)
  /\ UNCHANGED history

(***************************************************************************)
(* Environment: the validation battery, the API, Redis, the encoder        *)
(* process, the file system.                                               *)
(***************************************************************************)
\* _start_encoder_tests_async._run (worker.py:58-76) and run_hardware_tests_task
\* (worker.py:125-140): one run of the battery, then ENCODER_TEST_CACHE.update.
RunEncoderTests ==
  /\ pc \in {"queued", "select", "select_lookup"}
  /\ \E result \in StartupTestResults(hw_info) :
       ENCODER_TEST_CACHE' = DictUpdate(ENCODER_TEST_CACHE, result)
  /\ ENCODER_TEST_CACHE' # ENCODER_TEST_CACHE
  /\ UNCHANGED <<hw_info, video_codec, cancel_flag, sink_up, pc, selectVars, cmdVars, procVars,
                 streamVars, polls, fileVars, final_size_mb, retry_attempt, resultVars,
                 cancel_during_encode>>
  /\ UNCHANGED sideVars

\* Some encoder process of the job has not ended.
EncoderRunning ==
  \E i \in DOMAIN procs : procs[i].kind # "audio" /\ procs[i].state \in {"running", "terminating"}

\* cancel_job (main.py:694-709): redis.set(cancel:{task_id}, "1", ex=3600); with
\* Redis down the set raises and the request fails with 500.  The revoke that
\* follows is best effort (its failure is swallowed) and has no effect here.
cancel_job ==
  /\ sink_up
  /\ pc # "end"
  /\ ~cancel_flag
  /\ cancel_flag' = TRUE
  /\ cancel_during_encode' = (cancel_during_encode \/ EncoderRunning)
  /\ UNCHANGED <<hw_info, video_codec, ENCODER_TEST_CACHE, sink_up, pc, selectVars, cmdVars,
                 procVars, streamVars, polls, fileVars, final_size_mb, retry_attempt,
                 resultVars>>
  /\ UNCHANGED sideVars

\* The flag's expiry (ex=3600).
CancelFlagExpires ==
  /\ cancel_flag
  /\ cancel_flag' = FALSE
  /\ UNCHANGED <<hw_info, video_codec, ENCODER_TEST_CACHE, sink_up, pc, selectVars, cmdVars,
                 procVars, streamVars, polls, fileVars, final_size_mb, retry_attempt,
                 resultVars, cancel_during_encode>>
  /\ UNCHANGED sideVars

\* Redis stops answering, and answers again.
SinkFails ==
  /\ sink_up
  /\ pc # "end"
  /\ sink_up' = FALSE
  /\ UNCHANGED <<hw_info, video_codec, ENCODER_TEST_CACHE, cancel_flag, pc, selectVars, cmdVars,
                 procVars, streamVars, polls, fileVars, final_size_mb, retry_attempt,
                 resultVars, cancel_during_encode>>
  /\ UNCHANGED sideVars

SinkRecovers ==
  /\ ~sink_up
  /\ pc # "end"
  /\ sink_up' = TRUE
  /\ UNCHANGED <<hw_info, video_codec, ENCODER_TEST_CACHE, cancel_flag, pc, selectVars, cmdVars,
                 procVars, streamVars, polls, fileVars, final_size_mb, retry_attempt,
                 resultVars, cancel_during_encode>>
  /\ UNCHANGED sideVars

\* The process of the current run_ffmpeg_and_stream call.
Current == procs[Len(procs)]

\* The encoder writes one line to its progress pipe (-progress pipe:2).
ProcWritesLine ==
  /\ procs # <<>>
  /\ Current.state \in {"running", "terminating"}
  /\ written < MaxLines
  /\ pipe' = pipe + 1
  /\ written' = written + 1
  /\ UNCHANGED <<globalVars, pc, selectVars, cmdVars, procs, streamVars, polls,
                 fileVars, final_size_mb, retry_attempt, resultVars, cancel_during_encode>>
  /\ UNCHANGED sideVars

\* A process ends by itself (or on SIGTERM) with an exit status; what it
\* leaves at output_path is any of the file states.
ProcExits ==
  /\ \E i \in DOMAIN procs :
       /\ procs[i].state \in {"running", "terminating"}
       /\ \E code \in {0, 1} :
            procs' = [procs EXCEPT ![i].state = "exited", ![i].rc = code]
  /\ \E f \in FileStates :
       /\ file' = f
       /\ IF f = "ready" THEN file_size' \in SizePcts ELSE file_size' = 0
  /\ UNCHANGED <<globalVars, pc, selectVars, cmdVars, pipe, written, streamVars,
                 polls, final_size_mb, retry_attempt, resultVars, cancel_during_encode>>
  /\ UNCHANGED sideVars

\* A written file becomes visible and readable (slow or networked file system).
FileSettles ==
  /\ pc = "verify"
  /\ file # "ready"
  /\ file' = "ready"
  /\ file_size' \in SizePcts
  /\ UNCHANGED <<globalVars, pc, selectVars, cmdVars, procVars, streamVars, polls,
                 final_size_mb, retry_attempt, resultVars, cancel_during_encode>>
  /\ UNCHANGED sideVars

(***************************************************************************)
(* compress_video (worker.py:143-1068).                                    *)
(***************************************************************************)
\* worker.py:150-163: log events, get_hw_info, ffprobe_info, calc_bitrates.
Begin ==
  /\ pc = "queued"
  /\ IF PublishRaises
     THEN PublishCrash
     ELSE /\ pc' = "select"
          /\ UNCHANGED resultVars
  /\ UNCHANGED <<globalVars, selectVars, cmdVars, procVars, streamVars, polls,
                 fileVars, final_size_mb, retry_attempt, cancel_during_encode>>
  /\ UNCHANGED sideVars

\* A downgrade that ignores the family.
CpuEquivalent_AlwaysX264(encoder) ==
  [encoder |-> "libx264", flags |-> <<"-pix_fmt", "yuv420p", "-profile:v", "high">>,
   init_flags |-> <<>>]

\* worker.py:183-192 and 802-807: the CPU encoder of a hardware encoder's family.
CpuEquivalent(encoder) ==
  IF ContainsH264(encoder) THEN
    [encoder |-> "libx264", flags |-> <<"-pix_fmt", "yuv420p", "-profile:v", "high">>,
     init_flags |-> <<>>]
  ELSE IF ContainsHevc(encoder) THEN
    [encoder |-> "libx265", flags |-> <<"-pix_fmt", "yuv420p">>, init_flags |-> <<>>]
  ELSE
    [encoder |-> "libaom-av1", flags |-> <<"-pix_fmt", "yuv420p">>, init_flags |-> <<>>]

\* A pessimistic lookup: unavailable unless the cache holds a passing record.
MarkedUnavailable_UnlessPassed(m, cache) ==
  LET key == cache_key(m.encoder, m.init_flags)
  IN ~(key \in DOMAIN cache /\ cache[key])

\* worker.py:173-174: the cache holds a failing record under the encoder's key.
MarkedUnavailable(m, cache) ==
  LET key == cache_key(m.encoder, m.init_flags)
  IN key \in DOMAIN cache /\ ~cache[key]

\* A selection that does not consult the cache.
SelectFirstEncoder_NoCheck(m, cache) == m

\* worker.py:170-192: the encoder of the first attempt.
SelectFirstEncoder(m, cache) ==
  IF m.encoder \notin {"libx264", "libx265", "libaom-av1"} /\ MarkedUnavailable(m, cache)
  THEN CpuEquivalent(m.encoder)
  ELSE m

\* worker.py:165-197.
SelectEncoder ==
  /\ pc = "select"
  /\ LET m == map_codec_to_hw(video_codec, hw_info)
         sel == SelectFirstEncoder(m, ENCODER_TEST_CACHE)
     IN /\ original_encoder' = m.encoder
        /\ failing_at_select' =
             (/\ cache_key(m.encoder, m.init_flags) \in DOMAIN ENCODER_TEST_CACHE
              /\ ENCODER_TEST_CACHE[cache_key(m.encoder, m.init_flags)] = FALSE)
        /\ actual_encoder' = sel.encoder
        /\ v_flags' = sel.flags
        /\ init_hw_flags' = sel.init_flags
  /\ IF PublishRaises
     THEN PublishCrash
     ELSE /\ pc' = "prepare"
          /\ UNCHANGED resultVars
  /\ UNCHANGED <<globalVars, cmdVars, procVars, streamVars, polls, fileVars,
                 final_size_mb, retry_attempt, cancel_during_encode>>
  /\ UNCHANGED sideVars

\* The second read of the condition at worker.py:174: a downgrade that keeps
\* the init flags of the hardware encoder.
LookupResult_Torn(m, in_cache, cache) ==
  IF in_cache /\ ~cache[cache_key(m.encoder, m.init_flags)]
  THEN [CpuEquivalent(m.encoder) EXCEPT !.init_flags = m.init_flags]
  ELSE m

\* worker.py:174-192: "cache_key in ENCODER_TEST_CACHE and not
\* ENCODER_TEST_CACHE[cache_key]" reads the dict a second time only when the
\* first read found the key; all three values are then assigned together.
LookupResult(m, in_cache, cache) ==
  IF in_cache /\ ~cache[cache_key(m.encoder, m.init_flags)]
  THEN CpuEquivalent(m.encoder)
  ELSE m

\* worker.py:166-174, up to the first read of the dict ("in"); another
\* thread may run before the second read.
SelectKeyLookup ==
  /\ pc = "select"
  /\ LET m == map_codec_to_hw(video_codec, hw_info)
     IN /\ original_encoder' = m.encoder
        /\ actual_encoder' = m.encoder
        /\ v_flags' = m.flags
        /\ init_hw_flags' = m.init_flags
        /\ IF m.encoder \in {"libx264", "libx265", "libaom-av1"}
           THEN /\ pc' = "prepare"
                /\ UNCHANGED key_in_cache
           ELSE /\ pc' = "select_lookup"
                /\ key_in_cache' = (cache_key(m.encoder, m.init_flags) \in DOMAIN ENCODER_TEST_CACHE)
  /\ UNCHANGED <<globalVars, failing_at_select, cmdVars, procVars, streamVars, polls, fileVars,
                 final_size_mb, retry_attempt, resultVars, cancel_during_encode>>
  /\ UNCHANGED <<media, progVars, detectVars, chooseVars, bitrate, tests, extraVars>>

\* worker.py:174-197: the second read and the assignments that follow it.
SelectValueRead ==
  /\ pc = "select_lookup"
  /\ LET m == [encoder |-> actual_encoder, flags |-> v_flags, init_flags |-> init_hw_flags]
         sel == LookupResult(m, key_in_cache, ENCODER_TEST_CACHE)
     IN /\ failing_at_select' =
             (key_in_cache /\ ~ENCODER_TEST_CACHE[cache_key(m.encoder, m.init_flags)])
        /\ actual_encoder' = sel.encoder
        /\ v_flags' = sel.flags
        /\ init_hw_flags' = sel.init_flags
  /\ pc' = "prepare"
  /\ UNCHANGED <<globalVars, original_encoder, cmdVars, procVars, streamVars, polls, fileVars,
                 final_size_mb, retry_attempt, resultVars, cancel_during_encode>>
  /\ UNCHANGED sideVars

\* worker.py:245-252: the audio extraction command (no video encoder).
AudioCmd ==
  [encoder |-> "None", init_hw_flags |-> <<>>, input_opts |-> <<>>,
   duration_opts |-> <<>>, v_flags |-> <<>>, vf |-> "None", rate |-> "audio",
   audio |-> <<"-c:a", "a_codec", "-b:a", "a_bitrate_str">>, mp4_flags |-> <<>>]

\* worker.py:494,504,522: the flags without each "-pix_fmt" and the element
\* that follows one.
RECURSIVE KeepFrom(_, _)
KeepFrom(flags, i) ==
  IF i > Len(flags) THEN <<>>
  ELSE IF flags[i] = "-pix_fmt" \/ (i > 1 /\ flags[i - 1] = "-pix_fmt")
  THEN KeepFrom(flags, i + 1)
  ELSE <<flags[i]>> \o KeepFrom(flags, i + 1)

\* worker.py:487-526: the decode strategy sets up CUDA decode for an NVENC
\* encoder on H.264/HEVC input, and on AV1 input when av1_cuvid is usable.
CudaDecode(encoder, m) ==
  /\ EndsWithNvenc(encoder)
  /\ m.in_codec \in {"h264", "hevc"} \/ (m.in_codec = "av1" /\ m.av1_cuvid)

DecodeInitFlags(encoder, init_flags, m) ==
  IF CudaDecode(encoder, m)
  THEN <<"-hwaccel", "cuda", "-hwaccel_output_format", "cuda">> \o init_flags
  ELSE init_flags

DecodeVFlags(encoder, flags, m) ==
  IF CudaDecode(encoder, m) THEN KeepFrom(flags, 1) ELSE flags

\* input_opts (worker.py:374-380, 492, 502, 510): the seek of a trim, then
\* the decoder the decode strategy selects.
DecodeInputOpts(encoder, m) ==
  (IF m.trim \in {"start", "both"} THEN <<"-ss", "start_time">> ELSE <<>>)
    \o (IF m.in_codec = "av1" /\ EndsWithNvenc(encoder)
        THEN (IF m.av1_cuvid THEN <<"-c:v", "av1_cuvid">> ELSE <<"-c:v", "libdav1d">>)
        ELSE <<>>)

\* duration_opts (worker.py:375, 382-414): -t with both times, -to with an
\* end time alone.
DurationOpts(m) ==
  IF m.trim = "both" THEN <<"-t", "duration_sec">>
  ELSE IF m.trim = "end" THEN <<"-to", "end_time">>
  ELSE <<>>

\* worker.py:565-568 and 838-841: no audio, or the chosen codec and bitrate.
AudioOpts(m) ==
  IF m.mute THEN <<"-an">>
  ELSE <<"-c:a", "chosen_audio_codec", "-b:a", "a_bitrate_str">>

\* mp4_flags (worker.py:341-348).
Mp4Flags(m) ==
  IF m.container = "mp4_fast"
  THEN <<"-movflags", "+frag_keyframe+empty_moov+default_base_moof">>
  ELSE IF m.container = "mp4" THEN <<"-movflags", "+faststart">>
  ELSE <<>>

\* vf_filters after the decode strategy: none, scale= or scale_npp=.
DecodeVfFilters(encoder, m) ==
  IF ~m.vf_filters THEN "None"
  ELSE IF CudaDecode(encoder, m) THEN "scale_npp"
  ELSE "scale"

\* worker.py:548-551: the scale filter is put before the value of the first
\* -vf of v_flags.
ScaleInVf(flags) ==
  [i \in DOMAIN flags |->
     IF /\ i > 1
        /\ flags[i - 1] = "-vf"
        /\ \A j \in 1..(i - 2) : flags[j] # "-vf"
        /\ flags[i] = "format=nv12|vaapi,hwupload"
     THEN "scale,format=nv12|vaapi,hwupload"
     ELSE flags[i]]

\* For VAAPI with a scale filter v_flags is added to the command a second
\* time, with the filter merged in (worker.py:543-553).
VaapiScaled(encoder, m) == m.vf_filters /\ EndsWithVaapi(encoder)

\* worker.py:486-574: the command of the initial attempt.
InitialCmd(encoder, flags, init_flags) ==
  LET vflags == DecodeVFlags(encoder, flags, media)
  IN [encoder |-> encoder,
      init_hw_flags |-> DecodeInitFlags(encoder, init_flags, media),
      input_opts |-> DecodeInputOpts(encoder, media),
      duration_opts |-> DurationOpts(media),
      v_flags |-> IF VaapiScaled(encoder, media) THEN vflags \o ScaleInVf(vflags) ELSE vflags,
      vf |-> IF VaapiScaled(encoder, media) THEN "None" ELSE DecodeVfFilters(encoder, media),
      rate |-> "full",
      audio |-> AudioOpts(media),
      mp4_flags |-> Mp4Flags(media)]

\* ffprobe_info (utils.py:28-54): the keys of the dictionary it returns. The
\* streams of codec_type audio contribute their bit rate and nothing else.
ffprobe_info(has_audio_stream) ==
  [duration |-> "duration",
   video_bitrate_kbps |-> "v_bitrate",
   audio_bitrate_kbps |-> IF has_audio_stream THEN "a_bitrate" ELSE "None",
   video_codec |-> "v_codec"]

\* worker.py:237: info.get("has_audio"), None for a missing key.
HasAudio(info) == "has_audio" \in DOMAIN info /\ info.has_audio

\* worker.py:199-578: the audio-only branch is taken or the command of the
\* initial attempt is built.
Prepare ==
  /\ pc = "prepare"
  /\ \E audio_only \in BOOLEAN :
       IF PublishRaises THEN
         /\ PublishCrash
         /\ UNCHANGED <<cmdVars, v_flags, init_hw_flags>>
       ELSE IF audio_only /\ ~HasAudio(ffprobe_info(input_has_audio)) THEN
         /\ End("Failed", "no_audio", <<Ev("error", "no_audio")>>)
         /\ UNCHANGED <<cmdVars, history, v_flags, init_hw_flags>>
       ELSE IF audio_only THEN
         /\ pc' = "start"
         /\ attempt' = "audio"
         /\ cmd' = AudioCmd
         /\ command' = AudioCmd
         /\ UNCHANGED <<resultVars, v_flags, init_hw_flags>>
       ELSE
         /\ pc' = "start"
         /\ attempt' = "initial"
         /\ cmd' = InitialCmd(actual_encoder, v_flags, init_hw_flags)
         /\ command' = InitialCmd(actual_encoder, v_flags, init_hw_flags)
         /\ init_hw_flags' = DecodeInitFlags(actual_encoder, init_hw_flags, media)
         /\ v_flags' = IF VaapiScaled(actual_encoder, media) THEN <<>>
                       ELSE DecodeVFlags(actual_encoder, v_flags, media)
         /\ UNCHANGED resultVars
  /\ UNCHANGED <<globalVars, original_encoder, actual_encoder, failing_at_select, procVars,
                 streamVars, polls, fileVars, final_size_mb, retry_attempt,
                 cancel_during_encode>>
  /\ UNCHANGED sideVars

\* A fallback command built without the options placed before the input.
FallbackCmd_NoInputOpts(encoder) ==
  [encoder |-> CpuEquivalent(encoder).encoder, init_hw_flags |-> <<>>,
   input_opts |-> <<>>,
   duration_opts |-> DurationOpts(media),
   v_flags |-> CpuEquivalent(encoder).flags,
   vf |-> DecodeVfFilters(encoder, media), rate |-> "full",
   audio |-> AudioOpts(media),
   mp4_flags |-> Mp4Flags(media)]

\* worker.py:813-842: the command of the CPU fallback, built from the
\* variables the initial command was built from, as the decode strategy
\* left them.
FallbackCmd(encoder) ==
  [encoder |-> CpuEquivalent(encoder).encoder, init_hw_flags |-> <<>>,
   input_opts |-> DecodeInputOpts(encoder, media),
   duration_opts |-> DurationOpts(media),
   v_flags |-> CpuEquivalent(encoder).flags,
   vf |-> DecodeVfFilters(encoder, media), rate |-> "full",
   audio |-> AudioOpts(media),
   mp4_flags |-> Mp4Flags(media)]

\* worker.py:945-964: the retry command is the initial command with its
\* bitrate values replaced.
RetryCmd(c) == [c EXCEPT !.rate = "reduced"]

\* subprocess.Popen (worker.py:581) and subprocess.run (worker.py:256).
StartProcess ==
  /\ pc = "start"
  /\ procs' = Append(procs, [kind |-> attempt, cmd |-> command,
                             state |-> "running", rc |-> 0, cancelled |-> FALSE])
  /\ pipe' = 0
  /\ written' = 0
  /\ cancelled' = FALSE
  /\ emitted_initial_progress' = FALSE
  /\ pc' = IF attempt = "audio" THEN "audio_run" ELSE "stream"
  /\ UNCHANGED <<globalVars, selectVars, cmdVars, rc, was_cancelled, polls, fileVars,
                 final_size_mb, retry_attempt, resultVars, cancel_during_encode>>
  /\ UNCHANGED sideVars

(***************************************************************************)
(* run_ffmpeg_and_stream (worker.py:580-781).                              *)
(***************************************************************************)
\* _is_cancelled (worker.py:102-107): False when Redis does not answer.
IsCancelled == sink_up /\ cancel_flag

\* A line is read and the flag is seen (worker.py:604-618): terminate is sent,
\* wait(timeout=3) follows.
ObserveCancel ==
  /\ cancelled' = TRUE
  /\ procs' = [procs EXCEPT ![Len(procs)].state =
                                  IF @ = "running" THEN "terminating" ELSE @,
                                ![Len(procs)].cancelled = TRUE]
  /\ pc' = "term_wait"
  /\ UNCHANGED <<emitted_initial_progress, resultVars>>

\* A line is read with no cancel pending (worker.py:619-776).  The first
\* non-blank line publishes the initial progress bump, a text line publishes
\* a log: both unprotected.  The publish of a progress sample is inside the
\* try block of worker.py:680-770.
HandleLine(kind) ==
  IF kind = "blank" THEN
    UNCHANGED <<cancelled, procs, pc, emitted_initial_progress, resultVars>>
  ELSE IF PublishRaises /\ (kind = "text" \/ ~emitted_initial_progress) THEN
    /\ PublishCrash
    /\ UNCHANGED <<cancelled, procs, emitted_initial_progress>>
  ELSE
    /\ emitted_initial_progress' = TRUE
    /\ UNCHANGED <<cancelled, procs, pc, resultVars>>

\* run_ffmpeg_and_stream returns: its locals and the pipe are gone.
StreamLocalsDie ==
  /\ pipe' = 0
  /\ written' = 0
  /\ cancelled' = FALSE
  /\ emitted_initial_progress' = FALSE

\* for line in proc_i.stderr (worker.py:602).
ReadLine ==
  /\ pc = "stream"
  /\ pipe > 0
  /\ pipe' = pipe - 1
  /\ IF IsCancelled THEN ObserveCancel ELSE \E kind \in LineKinds : HandleLine(kind)
  /\ UNCHANGED <<globalVars, selectVars, cmdVars, written, rc, was_cancelled, polls,
                 fileVars, final_size_mb, retry_attempt, cancel_during_encode>>
  /\ UNCHANGED sideVars

\* A return as soon as no line is pending, without waiting for the process.
ReadEOF_NoWait ==
  /\ pc = "stream"
  /\ pipe = 0
  /\ rc' = IF Current.state = "exited" THEN Current.rc ELSE 0
  /\ was_cancelled' = cancelled
  /\ pc' = "returned"
  /\ StreamLocalsDie
  /\ UNCHANGED <<globalVars, selectVars, cmdVars, procs, polls, fileVars, final_size_mb,
                 retry_attempt, resultVars, cancel_during_encode>>
  /\ UNCHANGED sideVars

\* The pipe is at end of file: proc_i.wait(), return (returncode or 0, False)
\* (worker.py:777-779).
ReadEOF ==
  /\ pc = "stream"
  /\ pipe = 0
  /\ Current.state = "exited"
  /\ rc' = Current.rc
  /\ was_cancelled' = cancelled
  /\ pc' = "returned"
  /\ StreamLocalsDie
  /\ UNCHANGED <<globalVars, selectVars, cmdVars, procs, polls, fileVars, final_size_mb,
                 retry_attempt, resultVars, cancel_during_encode>>
  /\ UNCHANGED sideVars

\* proc_i.wait(timeout=3) returns: the process has ended (worker.py:612).
WaitReturns ==
  /\ pc = "term_wait"
  /\ Current.state = "exited"
  /\ rc' = Current.rc
  /\ was_cancelled' = cancelled
  /\ pc' = "returned"
  /\ StreamLocalsDie
  /\ UNCHANGED <<globalVars, selectVars, cmdVars, procs, polls, fileVars, final_size_mb,
                 retry_attempt, resultVars, cancel_during_encode>>
  /\ UNCHANGED sideVars

\* A wait without a timeout: it returns only when the process has ended.
WaitTimesOut_NoTimeout ==
  /\ pc = "term_wait"
  /\ Current.state = "terminating"
  /\ UNCHANGED vars

\* proc_i.wait(timeout=3) times out: proc_i.kill() (worker.py:613-617); the
\* return code is still None, so "returncode or 0" is 0.
WaitTimesOut ==
  /\ pc = "term_wait"
  /\ Current.state = "terminating"
  /\ procs' = [procs EXCEPT ![Len(procs)].state = "killed"]
  /\ rc' = 0
  /\ was_cancelled' = cancelled
  /\ pc' = "returned"
  /\ StreamLocalsDie
  /\ UNCHANGED <<globalVars, selectVars, cmdVars, polls, fileVars, final_size_mb,
                 retry_attempt, resultVars, cancel_during_encode>>
  /\ UNCHANGED sideVars

(***************************************************************************)
(* compress_video after an encoder has been run (worker.py:786-1068).      *)
(***************************************************************************)
IsHardwareEncoder(e) ==
  EndsWithNvenc(e) \/ EndsWithQsv(e) \/ EndsWithVaapi(e) \/ EndsWithAmf(e)

\* A fallback after any failed initial attempt, whatever its encoder.
FallbackEligible_AnyEncoder(code, encoder) == code # 0

\* worker.py:794: the initial attempt failed on a hardware encoder.
FallbackEligible(code, encoder) == code # 0 /\ IsHardwareEncoder(encoder)

\* The result of an attempt taken without looking at was_cancelled.
EncodeResult_IgnoreCancel ==
  IF rc # 0 THEN
    /\ End("Failed", "ffmpeg", <<Ev("error", "ffmpeg")>>)
    /\ UNCHANGED <<history, polls>>
  ELSE
    /\ pc' = "verify"
    /\ polls' = 0
    /\ events' = Append(events, Ev("progress", "finalizing"))
    /\ UNCHANGED <<history, outcome, fail_cause>>

\* worker.py:846-865: cancelled, failed, or on to the verification.
EncodeResult ==
  IF was_cancelled THEN
    /\ End("Cancelled", "None", <<Ev("canceled", ""), Ev("error", "canceled")>>)
    /\ UNCHANGED <<history, polls>>
  ELSE IF rc # 0 THEN
    /\ End("Failed", "ffmpeg", <<Ev("error", "ffmpeg")>>)
    /\ UNCHANGED <<history, polls>>
  ELSE
    /\ pc' = "verify"
    /\ polls' = 0
    /\ events' = Append(events, Ev("progress", "finalizing"))
    /\ UNCHANGED <<history, outcome, fail_cause>>

\* worker.py:788-865, after the initial attempt.
AfterInitial ==
  /\ pc = "returned"
  /\ attempt = "initial"
  /\ IF PublishRaises THEN
       /\ PublishCrash
       /\ UNCHANGED <<actual_encoder, command, attempt, polls>>
     ELSE IF ~was_cancelled /\ FallbackEligible(rc, actual_encoder) THEN
       /\ actual_encoder' = CpuEquivalent(actual_encoder).encoder
       /\ command' = FallbackCmd(actual_encoder)
       /\ attempt' = "fallback"
       /\ pc' = "start"
       /\ UNCHANGED <<resultVars, polls>>
     ELSE
       /\ EncodeResult
       /\ UNCHANGED <<actual_encoder, command, attempt>>
  /\ UNCHANGED <<globalVars, original_encoder, v_flags, init_hw_flags, failing_at_select,
                 cmd, procVars, streamVars, fileVars, final_size_mb, retry_attempt,
                 cancel_during_encode>>
  /\ UNCHANGED sideVars

\* worker.py:846-865, after the CPU fallback.
AfterFallback ==
  /\ pc = "returned"
  /\ attempt = "fallback"
  /\ IF PublishRaises
     THEN PublishCrash /\ UNCHANGED polls
     ELSE EncodeResult
  /\ UNCHANGED <<globalVars, selectVars, cmdVars, procVars, streamVars, fileVars,
                 final_size_mb, retry_attempt, cancel_during_encode>>
  /\ UNCHANGED sideVars

\* A poll that does not count its iterations.
PollCheck_Unbounded ==
  /\ pc = "verify"
  /\ IF file = "ready" THEN pc' = "size_check" ELSE UNCHANGED pc
  /\ polls' = 0
  /\ UNCHANGED <<globalVars, selectVars, cmdVars, procVars, streamVars, fileVars,
                 final_size_mb, retry_attempt, resultVars, cancel_during_encode>>
  /\ UNCHANGED sideVars

\* One iteration of the verification poll (worker.py:870-880): the file
\* exists, is not empty and opens, or the loop sleeps 200 ms.
PollCheck ==
  /\ pc = "verify"
  /\ polls < PollChecks
  /\ IF file = "ready"
     THEN pc' = "size_check" /\ polls' = 0
     ELSE polls' = polls + 1 /\ UNCHANGED pc
  /\ UNCHANGED <<globalVars, selectVars, cmdVars, procVars, streamVars, fileVars,
                 final_size_mb, retry_attempt, resultVars, cancel_during_encode>>
  /\ UNCHANGED sideVars

\* The loop is exhausted with file_ready False (worker.py:882-885).
PollGivesUp ==
  /\ pc = "verify"
  /\ polls = PollChecks
  /\ IF PublishRaises
     THEN PublishCrash
     ELSE End("Failed", "not_accessible", <<Ev("error", "not_accessible")>>)
          /\ UNCHANGED history
  /\ UNCHANGED <<globalVars, selectVars, cmdVars, procVars, streamVars, fileVars, polls,
                 final_size_mb, retry_attempt, cancel_during_encode>>
  /\ UNCHANGED sideVars

\* worker.py:906,912: more than 2% over the target.
Oversize(size_pct) == size_pct - 100 > OverageTriggerPct /\ size_pct > 100

\* A retry decided without the bound on the retry counter.
RetryDue_NoBound(size_pct, retries) == Oversize(size_pct)

\* worker.py:912: a size retry is due.
RetryDue(size_pct, retries) == Oversize(size_pct) /\ retries < max_retries

\* A retry announced without the measured overage.
RetryAnnounced_NoOverage(size_pct) ==
  <<Ev("progress", "finalizing"), Ev("retry", "0"), Ev("progress", "encoding")>>

\* worker.py:897-939: what the retry branch publishes before the re-encode:
\* the finalizing progress, the retry event with the overage percent of the
\* measured size, and progress 1.0 of a new encoding phase.
RetryAnnounced(size_pct) ==
  <<Ev("progress", "finalizing"), Ev("retry", ToString(size_pct - 100)),
    Ev("progress", "encoding")>>

\* worker.py:887-996: the size is read and compared with the target; a retry
\* is prepared (the file is removed, which may fail) or the result is kept.
CheckSize ==
  /\ pc = "size_check"
  /\ \E retries \in 0..MaxRequestRetries, removed \in BOOLEAN :
       IF PublishRaises THEN
         /\ PublishCrash
         /\ UNCHANGED <<final_size_mb, retry_attempt, command, attempt, fileVars>>
       ELSE
         /\ final_size_mb' = file_size
         /\ retry_attempt' = retries
         /\ UNCHANGED <<history, outcome, fail_cause>>
         /\ IF RetryDue(file_size, retries) THEN
              /\ events' = events \o RetryAnnounced(file_size)
              /\ IF removed
                 THEN file' = "absent" /\ file_size' = 0
                 ELSE UNCHANGED fileVars
              /\ command' = RetryCmd(cmd)
              /\ attempt' = "retry"
              /\ pc' = "start"
            ELSE
              /\ events' = events \o <<Ev("progress", "finalizing")>>
                             \o (IF Oversize(file_size) /\ retries >= max_retries
                                 THEN <<Ev("log", "keeping_best_result")>> ELSE <<>>)
              /\ pc' = "finalize"
              /\ UNCHANGED <<fileVars, command, attempt>>
  /\ UNCHANGED <<globalVars, selectVars, cmd, procVars, streamVars, polls,
                 cancel_during_encode>>
  /\ UNCHANGED sideVars

\* A retry whose output is checked against the target again.
AfterRetry_Recheck ==
  /\ pc = "returned"
  /\ attempt = "retry"
  /\ pc' = "verify"
  /\ polls' = 0
  /\ UNCHANGED <<globalVars, selectVars, cmdVars, procVars, streamVars, fileVars,
                 final_size_mb, retry_attempt, resultVars, cancel_during_encode>>
  /\ UNCHANGED sideVars

\* worker.py:973-993, after the size retry.
AfterRetry ==
  /\ pc = "returned"
  /\ attempt = "retry"
  /\ IF was_cancelled THEN
       /\ IF PublishRaises
          THEN PublishCrash
          ELSE End("Cancelled", "None", <<Ev("canceled", ""), Ev("error", "canceled")>>)
               /\ UNCHANGED history
       /\ UNCHANGED final_size_mb
     ELSE IF rc # 0 THEN
       /\ IF PublishRaises
          THEN PublishCrash
          ELSE /\ pc' = "finalize"
               /\ events' = Append(events, Ev("error", "retry_failed"))
               /\ UNCHANGED <<history, outcome, fail_cause>>
       /\ UNCHANGED final_size_mb
     ELSE
       /\ pc' = "finalize"
       /\ final_size_mb' = IF file = "absent" THEN final_size_mb ELSE file_size
       /\ UNCHANGED resultVars
  /\ UNCHANGED <<globalVars, selectVars, cmdVars, procVars, streamVars, polls, fileVars,
                 retry_attempt, cancel_during_encode>>
  /\ UNCHANGED sideVars

\* worker.py:998-1068: the history entry (best effort), progress 100, done.
Finalize ==
  /\ pc = "finalize"
  /\ IF PublishRaises THEN
       PublishCrash
     ELSE
       /\ \E saved \in BOOLEAN : history' = IF saved THEN history + 1 ELSE history
       /\ End("Done", "None", <<Ev("progress", "finalizing"), Ev("progress", "done"),
                                Ev("done", "")>>)
  /\ UNCHANGED <<globalVars, selectVars, cmdVars, procVars, streamVars, polls, fileVars,
                 final_size_mb, retry_attempt, cancel_during_encode>>
  /\ UNCHANGED sideVars

\* worker.py:256-276: subprocess.run of the audio extraction has returned.
\* No job gets here: Prepare never launches the extraction.
AudioReturns ==
  /\ pc = "audio_run"
  /\ Current.state = "exited"
  /\ rc' = Current.rc
  /\ IF PublishRaises THEN
       /\ PublishCrash
       /\ UNCHANGED final_size_mb
     ELSE IF Current.rc # 0 THEN
       /\ End("Failed", "audio", <<Ev("error", "audio")>>)
       /\ UNCHANGED <<history, final_size_mb>>
     ELSE
       /\ final_size_mb' = file_size
       /\ End("Done", "None", <<Ev("progress", "done"), Ev("done", "")>>)
       /\ UNCHANGED history
  /\ UNCHANGED <<globalVars, selectVars, cmdVars, procVars, cancelled,
                 emitted_initial_progress, was_cancelled, polls, fileVars, retry_attempt,
                 cancel_during_encode>>
  /\ UNCHANGED sideVars

(***************************************************************************)
(* Specifications.                                                         *)
(***************************************************************************)
\* The steps of the worker's task.
WorkerStep ==
  \/ Begin
  \/ SelectEncoder
  \/ Prepare
  \/ StartProcess
  \/ ReadLine
  \/ ReadEOF
  \/ WaitReturns
  \/ WaitTimesOut
  \/ AfterInitial
  \/ AfterFallback
  \/ PollCheck
  \/ PollGivesUp
  \/ CheckSize
  \/ AfterRetry
  \/ Finalize

\* The steps of the job's environment.
EnvStep ==
  \/ RunEncoderTests
  \/ cancel_job
  \/ CancelFlagExpires
  \/ ProcWritesLine
  \/ ProcExits
  \/ FileSettles

\* A working publish sink.
Next == WorkerStep \/ EnvStep

Spec == Init /\ [][Next]_vars

\* The worker's task keeps running: a step of it that is possible is taken.
\* The encoder process and the rest of the environment owe nothing.
FairSpec == Spec /\ WF_vars(WorkerStep)

\* The publish sink may stop answering at any moment.
NextSink == Next \/ SinkFails \/ SinkRecovers

SpecSink == Init /\ [][NextSink]_vars

\* The job up to the launch of its first process, for every capability and
\* every token.
\* A job up to the launch of its CPU fallback, with a working sink and no
\* cancellation.
NextFallback ==
  Begin \/ SelectEncoder \/ Prepare \/ StartProcess \/ ProcExits \/ ReadEOF \/ AfterInitial

SpecFallback == InitFallback /\ [][NextFallback]_vars

\* Jobs on inputs with and without an audio stream, up to the first attempt.
InitAudio ==
  /\ bitrate = NoBitrate
  /\ tests = EmptyDict
  /\ phases = NoPhases
  /\ hw_calls = NoCalls
  /\ smoke = NoSmoke
  /\ input_has_audio \in BOOLEAN
  /\ hw_info \in JobHwInfos
  /\ video_codec \in JobVideoCodecs
  /\ media \in JobMedia
  /\ JobStart
  /\ key_in_cache = FALSE
  /\ ProgressStart
  /\ DetectStart
  /\ ChooseStart

SpecAudio == InitAudio /\ [][NextFallback]_vars

NextSelect == Begin \/ SelectEncoder \/ Prepare \/ StartProcess \/ RunEncoderTests

SpecSelect == InitSelect /\ [][NextSelect]_vars

(***************************************************************************)
(* The selection step read by read, interleaved with the writers of the    *)
(* cache (startup thread, on-demand refresh).                              *)
(***************************************************************************)
InitRace ==
  /\ BitrateIdle
  /\ hw_info \in HwInfos
  /\ video_codec \in VideoCodecs
  /\ media \in JobMedia
  /\ JobStart
  /\ key_in_cache = FALSE
  /\ ProgressStart
  /\ DetectStart
  /\ ChooseStart

NextRace ==
  Begin \/ SelectKeyLookup \/ SelectValueRead \/ RunEncoderTests \/ Prepare \/ StartProcess

SpecRace == InitRace /\ [][NextRace]_vars

(***************************************************************************)
(* get_hw_info (hw_detect.py:335-340) on a fresh worker.                   *)
(***************************************************************************)
InitDetect ==
  /\ BitrateIdle
  /\ hw_info = NoHwInfo
  /\ video_codec = "libx264"
  /\ media \in JobMedia
  /\ JobStart
  /\ key_in_cache = FALSE
  /\ ProgressStart
  /\ probe \in Probes
  /\ detected = NotDetected
  /\ ChooseStart

\* _HW_INFO is None: detect_hw_accel runs; when it raises _HW_INFO stays None.
get_hw_info ==
  /\ hw_info = NoHwInfo
  /\ detected' = detect_hw_accel(probe)
  /\ hw_info' = IF detect_hw_accel(probe).raised THEN hw_info ELSE detect_hw_accel(probe).info
  /\ UNCHANGED <<video_codec, ENCODER_TEST_CACHE, cancel_flag, sink_up, pc, selectVars, cmdVars,
                 procVars, streamVars, polls, fileVars, final_size_mb, retry_attempt,
                 resultVars, cancel_during_encode, media, key_in_cache, progVars, probe, chooseVars,
                 bitrate, tests, extraVars>>

SpecDetect == InitDetect /\ [][get_hw_info]_vars

(***************************************************************************)
(* get_hw_info called by two threads of one process: the startup           *)
(* validation thread (worker.py:57-88) and a task (113, 132, 152). The     *)
(* function holds no lock, so its statements interleave.                   *)
(***************************************************************************)
Threads == {"startup", "task"}

\* The hosts of the two threads: render nodes present, vainfo naming Intel,
\* no lspci, nvidia-smi -L answering.
CacheProbes ==
  {p \in Probes : /\ p.smi_list = "ok"
                  /\ p.render_nodes
                  /\ p.vainfo = "intel"
                  /\ p.lspci = "missing"}

\* hw_detect.py:338: if _HW_INFO is None.
CacheCheck(t) ==
  /\ hw_calls.threads[t].pc = "call"
  /\ hw_calls' = [hw_calls EXCEPT
                    !.threads[t].pc = IF hw_info = NoHwInfo THEN "detect" ELSE "return"]
  /\ UNCHANGED <<jobVars, media, key_in_cache, progVars, detectVars, chooseVars, bitrate, tests,
                 phases, input_has_audio, smoke>>

\* hw_detect.py:339: _HW_INFO = detect_hw_accel(); an exception leaves
\* get_hw_info with _HW_INFO still None.
CacheFill(t) ==
  /\ hw_calls.threads[t].pc = "detect"
  /\ detected' = detect_hw_accel(probe)
  /\ hw_info' = IF detect_hw_accel(probe).raised THEN hw_info ELSE detect_hw_accel(probe).info
  /\ hw_calls' = [hw_calls EXCEPT
                    !.detect_runs = @ + 1,
                    !.threads[t].pc = IF detect_hw_accel(probe).raised THEN "raised" ELSE "return"]
  /\ UNCHANGED <<video_codec, ENCODER_TEST_CACHE, cancel_flag, sink_up, pc, selectVars, cmdVars,
                 procVars, streamVars, polls, fileVars, final_size_mb, retry_attempt,
                 resultVars, cancel_during_encode, media, key_in_cache, progVars, probe, chooseVars,
                 bitrate, tests, phases, input_has_audio, smoke>>

\* hw_detect.py:340: return _HW_INFO.
CacheReturn(t) ==
  /\ hw_calls.threads[t].pc = "return"
  /\ hw_calls' = [hw_calls EXCEPT !.threads[t] = [pc |-> "returned", returned |-> hw_info]]
  /\ UNCHANGED <<jobVars, media, key_in_cache, progVars, detectVars, chooseVars, bitrate, tests,
                 phases, input_has_audio, smoke>>

InitCache ==
  /\ bitrate = NoBitrate
  /\ tests = EmptyDict
  /\ phases = NoPhases
  /\ input_has_audio = TRUE
  /\ smoke = NoSmoke
  /\ hw_calls = [threads |-> [t \in Threads |-> [pc |-> "call", returned |-> NoHwInfo]],
                 detect_runs |-> 0]
  /\ hw_info = NoHwInfo
  /\ video_codec = "libx264"
  /\ media \in JobMedia
  /\ JobStart
  /\ key_in_cache = FALSE
  /\ ProgressStart
  /\ probe \in CacheProbes
  /\ detected = NotDetected
  /\ ChooseStart

NextCache == \E t \in Threads : CacheCheck(t) \/ CacheFill(t) \/ CacheReturn(t)

SpecCache == InitCache /\ [][NextCache]_vars

(***************************************************************************)
(* get_hardware_info_task (worker.py:110-122) and the caller of            *)
(* main.py:868-869: the preferred codec.                                   *)
(***************************************************************************)
InitChoose ==
  /\ BitrateIdle
  /\ hw_info \in ChooseHwInfos
  /\ video_codec = "libx264"
  /\ media \in JobMedia
  /\ JobStart
  /\ key_in_cache = FALSE
  /\ ProgressStart
  /\ DetectStart
  /\ redis_tests \in RedisStates(hw_info)
  /\ cache_arg \in {NoneCache} \cup {DictCache(d) : d \in TestRunCaches(hw_info)}
  /\ preferred = NoChoice

ChooseBest ==
  /\ preferred = NoChoice
  /\ preferred' = choose_best_codec(hw_info, cache_arg, redis_tests)
  /\ UNCHANGED <<jobVars, media, key_in_cache, progVars, detectVars, redis_tests, cache_arg,
                 bitrate, tests, extraVars>>

SpecChoose == InitChoose /\ [][ChooseBest]_vars

(***************************************************************************)
(* The progress estimate of run_ffmpeg_and_stream (worker.py:580-781) over *)
(* one attempt.  Times are whole seconds, speeds hundredths, progress      *)
(* 1/10000 (the percent with two decimals the event carries).  The         *)
(* bitrate line changes nothing the estimate uses and is left out.         *)
(***************************************************************************)
\* duration (worker.py:158), in seconds.
Duration == 10

\* encoding_portion of an mp4 with fast finalize (worker.py:209), in 1/10000.
encoding_portion == 9850

\* An estimate that counts down from encoding_portion.
ScaledProgress_CountDown(time_s, elapsed, speed) ==
  LET time_progress == IF time_s >= Duration THEN 10000 ELSE (time_s * 10000) \div Duration
  IN [value |-> encoding_portion - ((time_progress * encoding_portion) \div 10000),
      blended |-> FALSE, wallclock |-> time_progress]

\* worker.py:679-716: scaled_progress from the reported time, the elapsed
\* wall clock and the speed EWMA; blended is whether the wall-clock estimate
\* was mixed in, wallclock the estimate that got the weight 0.3 (the time
\* estimate itself when nothing was mixed in).
ScaledProgress(time_s, elapsed, speed) ==
  LET time_progress == IF time_s >= Duration THEN 10000 ELSE (time_s * 10000) \div Duration
      raw_wallclock == (elapsed * speed * 100) \div Duration
      wallclock_progress ==
        IF speed > 1 /\ elapsed > 2
        THEN (IF raw_wallclock > 10000 THEN 10000 ELSE raw_wallclock)
        ELSE 0
      blended == wallclock_progress > 100 /\ elapsed > 3
      scaled == IF blended
                THEN ((7 * time_progress + 3 * wallclock_progress) * encoding_portion) \div 100000
                ELSE (time_progress * encoding_portion) \div 10000
  IN [value |-> IF scaled > encoding_portion THEN encoding_portion ELSE scaled,
      blended |-> blended,
      wallclock |-> IF blended THEN wallclock_progress ELSE time_progress]

\* The filter without its output-byte threshold.
ShouldReport_NoSizeCheck(scaled, elapsed, speed, size) ==
  scaled >= 300 /\ speed # 0 /\ speed > 10 /\ elapsed > 2

\* worker.py:721-727.
ShouldReport(scaled, elapsed, speed, size) ==
  scaled >= 300 /\ speed # 0 /\ speed > 10 /\ elapsed > 2 /\ size > 100000

ProgressEvent(value, time_s, blended, wallclock) ==
  [type |-> "progress", value |-> value, time_s |-> time_s, blended |-> blended,
   wallclock |-> wallclock]

\* worker.py:650: the log event of a detected restart.
RestartEvent ==
  [type |-> "restart", value |-> 0, time_s |-> 0, blended |-> FALSE, wallclock |-> 0]

\* worker.py:623-633: the bump published on the first non-blank line.
InitialBump ==
  IF ~emitted_initial_progress /\ last_progress < 10
  THEN <<ProgressEvent(10, 0, FALSE, 0)>>
  ELSE <<>>

\* worker.py:595-598, 746-752: whether a sample that passed the filter is
\* published. last_progress already holds the sample's own value when
\* progress_delta is computed (728, 748); min_step is 0.025% for a duration
\* under 120 s, 2.5 in 1/10000.
ShouldUpdate(scaled_progress, last, time_since_update) ==
  LET progress_delta == IF scaled_progress >= last THEN scaled_progress - last
                        ELSE last - scaled_progress
  IN \/ 2 * progress_delta >= 5
     \/ scaled_progress >= encoding_portion - 10
     \/ time_since_update >= 2

\* One key=value line of the progress pipe is read and handled
\* (worker.py:604-771): out_time_ms, total_size or speed.
ReadProgressLine ==
  /\ Len(emitted) < MaxEmitted
  /\ written < MaxProgressLines
  /\ written' = written + 1
  /\ emitted_initial_progress' = TRUE
  /\ \E key \in {"out_time_ms", "total_size", "speed"} :
       LET bumped == IF InitialBump # <<>> /\ last_progress < 10 THEN 10 ELSE last_progress
       IN
       IF key = "total_size" THEN
         /\ \E size \in {50000, 200000} : current_size_bytes' = size
         /\ emitted' = emitted \o InitialBump
         /\ last_progress' = bumped
         /\ sample' = [NoSample EXCEPT !.restarted = sample.restarted,
                                       !.time_start = sample.time_start]
         /\ UNCHANGED <<now, last_update_time, current_time_s, last_time_s, speed_ewma>>
       ELSE IF key = "speed" THEN
         /\ \E sp \in {20, 200} :
              speed_ewma' = IF speed_ewma = 0 THEN sp ELSE (3 * sp + 7 * speed_ewma) \div 10
         /\ emitted' = emitted \o InitialBump
         /\ last_progress' = bumped
         /\ sample' = [NoSample EXCEPT !.restarted = sample.restarted,
                                       !.time_start = sample.time_start]
         /\ UNCHANGED <<now, last_update_time, current_time_s, last_time_s, current_size_bytes>>
       ELSE
         \E new_time_s \in {2, 5, 6, 10} :
           LET restart == last_time_s > 0 /\ 2 * new_time_s < last_time_s
               size == IF restart THEN 0 ELSE current_size_bytes
               speed == IF restart THEN 0 ELSE speed_ewma
               p == ScaledProgress(new_time_s, now, speed)
               should_report == ShouldReport(p.value, now, speed, size)
               previous == IF restart THEN 0 ELSE bumped
               reported == IF should_report THEN p.value ELSE previous
               should_update ==
                 should_report /\ ShouldUpdate(p.value, reported, now - last_update_time)
           IN /\ current_time_s' = new_time_s
              /\ last_time_s' = new_time_s
              /\ current_size_bytes' = size
              /\ speed_ewma' = speed
              /\ last_progress' = reported
              /\ sample' = [kind |-> "time", restart |-> restart,
                            restarted |-> restart \/ sample.restarted,
                            time_start |-> IF restart THEN now ELSE sample.time_start,
                            now |-> now, elapsed |-> now, size |-> size, speed |-> speed,
                            scaled |-> p.value, previous |-> previous,
                            passed |-> should_report, since |-> now - last_update_time,
                            emitted |-> should_update]
              /\ last_update_time' = IF should_update THEN now ELSE last_update_time
              /\ emitted' = emitted \o InitialBump
                              \o (IF restart THEN <<RestartEvent>> ELSE <<>>)
                              \o (IF should_update
                                  THEN <<ProgressEvent(p.value, new_time_s, p.blended, p.wallclock)>>
                                  ELSE <<>>)
              /\ UNCHANGED now
  /\ UNCHANGED <<hw_info, video_codec, ENCODER_TEST_CACHE, cancel_flag, sink_up, pc, selectVars,
                 cmdVars, procs, pipe, cancelled, rc, was_cancelled, polls, fileVars,
                 final_size_mb, retry_attempt, resultVars, cancel_during_encode>>
  /\ UNCHANGED <<media, key_in_cache, detectVars, chooseVars, bitrate, tests, extraVars>>

\* A second of wall clock passes between two lines.
Tick ==
  /\ now < MaxNow
  /\ now' = now + 1
  /\ UNCHANGED <<jobVars, media, key_in_cache, last_update_time, current_time_s, last_time_s,
                 current_size_bytes, speed_ewma, last_progress, emitted, sample, detectVars,
                 chooseVars, bitrate, tests, extraVars>>

\* The event of worker.py:938 that opens a size retry: progress 1.0.
RetryReset ==
  [type |-> "retry_reset", value |-> 100, time_s |-> 0, blended |-> FALSE, wallclock |-> 0]

\* The attempt ends and run_ffmpeg_and_stream is called again, for the CPU
\* fallback (worker.py:844) or for a size retry (938, 969-971): its locals
\* start afresh, the nonlocal speed_ewma and start_ts are kept, and only the
\* retry sets last_progress back to 0.
NewAttempt ==
  /\ attempt = "None"
  /\ Len(emitted) < MaxEmitted
  /\ \E next \in {"fallback", "retry"} :
       /\ attempt' = next
       /\ last_progress' = IF next = "retry" THEN 0 ELSE last_progress
       /\ emitted' = IF next = "retry" THEN Append(emitted, RetryReset) ELSE emitted
  /\ emitted_initial_progress' = FALSE
  /\ last_update_time' = now
  /\ current_time_s' = 0
  /\ last_time_s' = 0
  /\ current_size_bytes' = 0
  /\ sample' = NoSample
  /\ UNCHANGED <<now, speed_ewma>>
  /\ UNCHANGED <<hw_info, video_codec, ENCODER_TEST_CACHE, cancel_flag, sink_up, pc, selectVars,
                 cmd, command, procVars, cancelled, rc, was_cancelled, polls, fileVars,
                 final_size_mb, retry_attempt, resultVars, cancel_during_encode>>
  /\ UNCHANGED <<media, key_in_cache, detectVars, chooseVars, bitrate, tests, extraVars>>

InitProgress ==
  /\ BitrateIdle
  /\ hw_info = CpuHw
  /\ video_codec = "libx264"
  /\ media \in JobMedia
  /\ JobStart
  /\ key_in_cache = FALSE
  /\ ProgressStart
  /\ DetectStart
  /\ ChooseStart

NextProgress == ReadProgressLine \/ Tick \/ NewAttempt

SpecProgress == InitProgress /\ [][NextProgress]_vars

(***************************************************************************)
(* Bitrates: calc_bitrates, the bitrate arguments of the command and their *)
(* replacement by the size retry. A float is an exact fraction of          *)
(* non-negative integers; sizes are percents of the target, as in the job. *)
(***************************************************************************)
Frac(n, d) == [num |-> n, den |-> d]

RECURSIVE GCD(_, _)
GCD(a, b) == IF b = 0 THEN a ELSE GCD(b, a % b)

Reduced(n, d) == IF n = 0 THEN Frac(0, 1) ELSE Frac(n \div GCD(n, d), d \div GCD(n, d))

Times(x, y) == Reduced(x.num * y.num, x.den * y.den)

\* int() of a non-negative float.
int(x) == x.num \div x.den

\* A budget computed with 8000 kilobits to the megabyte.
calc_bitrates_Decimal(target_mb, duration_s, audio_kbps) ==
  IF duration_s <= 0 THEN <<Frac(0, 1), Frac(0, 1)>>
  ELSE LET total_kbps == Reduced(target_mb * 8000, duration_s)
           rest == total_kbps.num - audio_kbps * total_kbps.den
       IN <<total_kbps, IF rest > 0 THEN Reduced(rest, total_kbps.den) ELSE Frac(0, 1)>>

\* utils.py:57-62.
calc_bitrates(target_mb, duration_s, audio_kbps) ==
  IF duration_s <= 0 THEN <<Frac(0, 1), Frac(0, 1)>>
  ELSE LET total_kbps == Reduced(target_mb * 8192, duration_s)
           rest == total_kbps.num - audio_kbps * total_kbps.den
       IN <<total_kbps, IF rest > 0 THEN Reduced(rest, total_kbps.den) ELSE Frac(0, 1)>>

\* main.py:124-130: the same budget with the low-quality warning.
_calc_bitrates(target_mb, duration_s, audio_kbps) ==
  IF duration_s <= 0 THEN <<Frac(0, 1), Frac(0, 1), TRUE>>
  ELSE LET total_kbps == Reduced(target_mb * 8192, duration_s)
           rest == total_kbps.num - audio_kbps * total_kbps.den
           video_kbps == IF rest > 0 THEN Reduced(rest, total_kbps.den) ELSE Frac(0, 1)
       IN <<total_kbps, video_kbps, video_kbps.num < 100 * video_kbps.den>>

\* An argument of a command: a word, or a number followed by k.
Arg(word) == [arg |-> word, k |-> -1]
Kbps(n) == [arg |-> "k", k |-> n]
Args(words) == [i \in DOMAIN words |-> Arg(words[i])]

\* worker.py:296-302, 317-320: the preset and tune arguments of an NVENC
\* encoder; the extraquality preset carries a -b:v of its own.
PresetFlags(preset) ==
  IF preset = "extraquality"
  THEN Args(<<"-preset", "p7", "-rc:v", "vbr", "-cq:v", "19", "-b:v", "0", "-tune", "hq">>)
  ELSE Args(<<"-preset", preset, "-tune", "hq">>)

\* worker.py:162-163, 528-574: the command of the initial attempt with its
\* bitrate arguments, for an NVENC encoder on an input without trim or scale.
BitrateCmd(video_kbps, audio_bitrate_kbps, preset) ==
  Args(<<"ffmpeg", "-hide_banner", "-y", "-hwaccel", "cuda", "-hwaccel_output_format",
         "cuda", "-i", "input_path", "-c:v", "h264_nvenc", "-profile:v", "high">>)
    \o <<Arg("-b:v"), Kbps(int(video_kbps)),
         Arg("-maxrate"), Kbps(int(Times(video_kbps, Frac(6, 5)))),
         Arg("-bufsize"), Kbps(int(Times(video_kbps, Frac(2, 1))))>>
    \o PresetFlags(preset)
    \o <<Arg("-c:a"), Arg("aac"), Arg("-b:a"), Kbps(audio_bitrate_kbps)>>
    \o Args(<<"-movflags", "+faststart", "-progress", "pipe:2", "output_path">>)

\* A reduction without the 5% margin.
ReductionFactor_NoMargin(size_pct) ==
  IF 2 * (200 - size_pct) < 100 THEN Frac(1, 2) ELSE Reduced(200 - size_pct, 100)

\* worker.py:915: max(0.5, 1.0 - size_overage_percent / 100.0 - 0.05), the
\* overage being size_pct - 100 percent.
ReductionFactor(size_pct) ==
  IF 2 * (100 - (size_pct - 100) - 5) < 100 THEN Frac(1, 2)
  ELSE Reduced(100 - (size_pct - 100) - 5, 100)

\* A reduction to one half counted as too severe.
TooSevere_AtHalf(reduction_factor) == 2 * reduction_factor.num <= reduction_factor.den

\* worker.py:917: reduction_factor < 0.5.
TooSevere(reduction_factor) == 2 * reduction_factor.num < reduction_factor.den

\* Every replaced value set to the adjusted bitrate.
AdjustedValue_SameForAll(flag, adjusted_video_kbps) == adjusted_video_kbps

\* worker.py:951, 955, 959: the value the retry puts after a bitrate flag.
AdjustedValue(flag, adjusted_video_kbps) ==
  IF flag = "-b:v" THEN adjusted_video_kbps
  ELSE IF flag = "-maxrate" THEN (adjusted_video_kbps * 12) \div 10
  ELSE adjusted_video_kbps * 2

\* worker.py:946-964: the loop that copies cmd into retry_cmd from index i.
RECURSIVE RetryArgs(_, _, _)
RetryArgs(c, i, adjusted_video_kbps) ==
  IF i > Len(c) THEN <<>>
  ELSE IF c[i].arg \in {"-b:v", "-maxrate", "-bufsize"}
  THEN <<c[i], Kbps(AdjustedValue(c[i].arg, adjusted_video_kbps))>>
         \o RetryArgs(c, i + 2, adjusted_video_kbps)
  ELSE <<c[i]>> \o RetryArgs(c, i + 1, adjusted_video_kbps)

\* The requests of the bitrate specification: target size in MB, duration
\* of the input as ffprobe reports it (0 when unknown), audio bitrate, preset.
BitrateRequests ==
  [target_size_mb : {10, 25}, duration : {-1, 0, 100, 600},
   audio_bitrate_kbps : {0, 128, 2000}, preset : {"p6", "extraquality"}]

\* The measured sizes of the bitrate specification, in percent of the target.
RetrySizePcts == {100, 102, 103, 105, 145, 146, 160}

InitBitrate ==
  /\ tests = EmptyDict
  /\ ExtraIdle
  /\ \E request \in BitrateRequests :
       bitrate = [stage |-> "probed", request |-> request]
  /\ hw_info \in JobHwInfos
  /\ video_codec \in JobVideoCodecs
  /\ media \in JobMedia
  /\ JobStart
  /\ key_in_cache = FALSE
  /\ ProgressStart
  /\ DetectStart
  /\ ChooseStart

\* main.py:351: the API estimates the budget of an upload.
EstimateBitrates ==
  /\ bitrate.stage = "probed"
  /\ LET request == bitrate.request
         estimate == _calc_bitrates(request.target_size_mb, request.duration,
                                    request.audio_bitrate_kbps)
     IN bitrate' = [stage |-> "estimated", request |-> request,
                    total_kbps |-> estimate[1], video_kbps |-> estimate[2],
                    warn |-> estimate[3]]
  /\ UNCHANGED <<jobVars, media, key_in_cache, progVars, detectVars, chooseVars, tests, extraVars>>

\* worker.py:159-163, 528-574: the worker computes the budget and builds the
\* command of the initial attempt.
BuildCommand ==
  /\ bitrate.stage = "probed"
  /\ LET request == bitrate.request
         budget == calc_bitrates(request.target_size_mb, request.duration,
                                 request.audio_bitrate_kbps)
     IN bitrate' = [stage |-> "built", request |-> request,
                    total_kbps |-> budget[1], video_kbps |-> budget[2],
                    cmd |-> BitrateCmd(budget[2], request.audio_bitrate_kbps,
                                       request.preset)]
  /\ UNCHANGED <<jobVars, media, key_in_cache, progVars, detectVars, chooseVars, tests, extraVars>>

\* worker.py:903-964: the verified size is compared with the target; when a
\* retry is due the reduction is computed, and the output is accepted as it
\* is (917-919) or the adjusted bitrate and the retry command are computed.
PrepareRetry ==
  /\ bitrate.stage = "built"
  /\ \E size_pct \in RetrySizePcts, retries \in 0..MaxRequestRetries :
       IF RetryDue(size_pct, retries) /\ TooSevere(ReductionFactor(size_pct)) THEN
         bitrate' = [stage |-> "accepted", request |-> bitrate.request,
                     total_kbps |-> bitrate.total_kbps,
                     video_kbps |-> bitrate.video_kbps,
                     cmd |-> bitrate.cmd,
                     size_pct |-> size_pct, retry_attempt |-> retries,
                     reduction_factor |-> ReductionFactor(size_pct)]
       ELSE IF RetryDue(size_pct, retries) THEN
         LET reduction_factor == ReductionFactor(size_pct)
             adjusted_video_kbps == int(Times(bitrate.video_kbps, reduction_factor))
         IN bitrate' = [stage |-> "retry", request |-> bitrate.request,
                        total_kbps |-> bitrate.total_kbps,
                        video_kbps |-> bitrate.video_kbps,
                        cmd |-> bitrate.cmd,
                        size_pct |-> size_pct, retry_attempt |-> retries,
                        reduction_factor |-> reduction_factor,
                        adjusted_video_kbps |-> adjusted_video_kbps,
                        retry_cmd |-> RetryArgs(bitrate.cmd, 1, adjusted_video_kbps)]
       ELSE
         bitrate' = [stage |-> "kept", request |-> bitrate.request,
                     total_kbps |-> bitrate.total_kbps,
                     video_kbps |-> bitrate.video_kbps,
                     cmd |-> bitrate.cmd,
                     size_pct |-> size_pct, retry_attempt |-> retries]
  /\ UNCHANGED <<jobVars, media, key_in_cache, progVars, detectVars, chooseVars, tests, extraVars>>

NextBitrate == EstimateBitrates \/ BuildCommand \/ PrepareRetry

SpecBitrate == InitBitrate /\ [][NextBitrate]_vars

(***************************************************************************)
(* One run of run_startup_tests (startup_tests.py:298-443) at worker       *)
(* startup (worker.py:67-68): the cache and the Redis flags it leaves.     *)
(***************************************************************************)
\* The codecs a run tests: a hardware codec that maps to a CPU encoder is
\* skipped (startup_tests.py:302-306).
RunCodecs(hw) ==
  {c \in TestCodecs(hw) :
     map_codec_to_hw(c, hw).encoder \in {"libx264", "libx265", "libaom-av1"}
       => c \in {"libx264", "libx265", "libaom-av1"}}

\* What the external tests of one codec do: the encoder is not listed by
\* ffmpeg, a test raises, or the encode test passes or fails after the
\* decode test (a hardware codec has one, startup_tests.py:339) passed or
\* failed.
TestOutcomes(hardware) ==
  IF ~hardware
  THEN {[available |-> TRUE, raised |-> FALSE, encode |-> e, decode |-> "None"] :
          e \in BOOLEAN}
  ELSE {[available |-> FALSE, raised |-> FALSE, encode |-> FALSE, decode |-> "None"],
        [available |-> TRUE, raised |-> TRUE, encode |-> FALSE, decode |-> "None"]}
         \cup {[available |-> TRUE, raised |-> FALSE, encode |-> e, decode |-> d] :
                 e \in BOOLEAN, d \in {"pass", "fail"}}

\* Every combination of outcomes over the codecs of a run.
RunOutcomes(hw) ==
  LET cpu == RunCodecs(hw) \cap {"libx264", "libx265", "libaom-av1"}
  IN {h @@ c : h \in [RunCodecs(hw) \ cpu -> TestOutcomes(TRUE)],
               c \in [cpu -> TestOutcomes(FALSE)]}

\* The status of test_results (startup_tests.py:333, 356-362, 368).
TestStatus(t) ==
  IF t.raised THEN "ERROR"
  ELSE IF ~t.available THEN "UNAVAILABLE"
  ELSE IF t.encode /\ t.decode # "fail" THEN "PASS"
  ELSE "FAIL"

\* The cache a run returns (startup_tests.py:331-332, 348-350): no record
\* for a codec whose test raised, False for an unavailable encoder, else the
\* result of the encode test.
TestCache(hw, outcomes) ==
  LET recorded == {c \in DOMAIN outcomes : ~outcomes[c].raised}
      key(c) == cache_key(map_codec_to_hw(c, hw).encoder, map_codec_to_hw(c, hw).init_flags)
  IN [k \in {key(c) : c \in recorded} |->
        LET c == CHOOSE c \in recorded : key(c) = k
        IN outcomes[c].available /\ outcomes[c].encode]

\* The flags encoder_test:{codec} a run stores (startup_tests.py:396-413).
TestFlags(outcomes) ==
  [c \in DOMAIN outcomes |->
     IF TestStatus(outcomes[c]) = "PASS" /\ outcomes[c].decode # "fail" THEN "1" ELSE "0"]

InitTests ==
  /\ bitrate = NoBitrate
  /\ ExtraIdle
  /\ hw_info \in HwInfos
  /\ tests \in RunOutcomes(hw_info)
  /\ video_codec = "libx264"
  /\ media \in JobMedia
  /\ JobStart
  /\ key_in_cache = FALSE
  /\ ProgressStart
  /\ DetectStart
  /\ redis_tests \in {NoRedisTests, [up |-> FALSE, flags |-> NoRedisTests.flags]}
  /\ cache_arg = NoneCache
  /\ preferred = NoChoice

\* worker.py:67-68: the battery runs, its cache is merged into
\* ENCODER_TEST_CACHE; the flags reach Redis when it is up.
run_startup_tests ==
  /\ tests # EmptyDict
  /\ ENCODER_TEST_CACHE = EmptyDict
  /\ ENCODER_TEST_CACHE' = DictUpdate(ENCODER_TEST_CACHE, TestCache(hw_info, tests))
  /\ redis_tests' = IF redis_tests.up
                    THEN [up |-> TRUE, flags |-> TestFlags(tests)]
                    ELSE redis_tests
  /\ UNCHANGED <<hw_info, video_codec, cancel_flag, sink_up, pc, selectVars, cmdVars, procVars,
                 streamVars, polls, fileVars, final_size_mb, retry_attempt, resultVars,
                 cancel_during_encode>>
  /\ UNCHANGED <<media, key_in_cache, progVars, detectVars, cache_arg, preferred, bitrate,
                 tests, extraVars>>

SpecTests == InitTests /\ [][run_startup_tests]_vars

(***************************************************************************)
(* The progress events of a job (worker.py:206-215, 623-628, 753-760,      *)
(* 858-860, 894-896, 938-939, 1006-1008, 1062). Percentages are in         *)
(* hundredths: 10000 is 100.0. The audio-only path, which would publish    *)
(* 100.0 alone (270), is never taken to its end.                           *)
(***************************************************************************)

\* One encoding portion for every container.
EncodingPortion_AlwaysFast(container) == encoding_portion

\* worker.py:208-215: encoding_portion * 10000 for the output container.
EncodingPortion(container) ==
  IF container = "mp4_fast" THEN encoding_portion
  ELSE IF container = "mp4" THEN 9000
  ELSE 9600

\* worker.py:215.
FinalizePortion(container) ==
  IF 10000 - EncodingPortion(container) > 0 THEN 10000 - EncodingPortion(container) ELSE 0

\* worker.py:859.
enc_done_pct(container) == EncodingPortion(container)

\* worker.py:895.
verify_pct(container) == EncodingPortion(container) + FinalizePortion(container) \div 2

\* worker.py:1007. 99.625 is rounded to 99.62 by round(x, 2).
presave_pct(container) ==
  (4 * EncodingPortion(container) + 3 * FinalizePortion(container)) \div 4

\* worker.py:686-715, 755: the percentage of a sample, scaled into the
\* encoding portion of the container and clamped to it.
SamplePct(container, time_s, elapsed, speed) ==
  LET portion == EncodingPortion(container)
      time_progress == IF time_s >= Duration THEN 10000 ELSE (time_s * 10000) \div Duration
      raw_wallclock == (elapsed * speed * 100) \div Duration
      wallclock_progress ==
        IF speed > 1 /\ elapsed > 2
        THEN (IF raw_wallclock > 10000 THEN 10000 ELSE raw_wallclock)
        ELSE 0
      scaled == IF wallclock_progress > 100 /\ elapsed > 3
                THEN ((7 * time_progress + 3 * wallclock_progress) * portion) \div 100000
                ELSE (time_progress * portion) \div 10000
  IN IF scaled > portion THEN portion ELSE scaled

Progress(phase, progress) == [phase |-> phase, progress |-> progress]

\* worker.py:623-628: the first output line of an attempt.
PublishBump ==
  /\ phases.stage \in {"started", "retry"}
  /\ phases' = [phases EXCEPT !.stage = "encoding",
                              !.published = Append(@, Progress("encoding", 10))]
  /\ UNCHANGED <<jobVars, media, key_in_cache, progVars, detectVars, chooseVars, bitrate, tests,
                 input_has_audio, smoke, hw_calls>>

\* worker.py:716-760: a sample that passes the filter and is published.
PublishSample ==
  /\ phases.stage = "encoding"
  /\ phases.samples < MaxSamples
  /\ \E time_s \in {2, 5, 6, 10}, elapsed \in {3, 4}, speed \in {20, 200} :
       LET prog == SamplePct(phases.container, time_s, elapsed, speed)
       IN /\ ShouldReport(prog, elapsed, speed, 200000)
          /\ phases' = [phases EXCEPT !.samples = @ + 1,
                                      !.published = Append(@, Progress("encoding", prog))]
  /\ UNCHANGED <<jobVars, media, key_in_cache, progVars, detectVars, chooseVars, bitrate, tests,
                 input_has_audio, smoke, hw_calls>>

\* worker.py:858-860: the encode of the initial attempt (or of its fallback)
\* has succeeded.
Publish_enc_done_pct ==
  /\ phases.stage = "encoding"
  /\ ~phases.retried
  /\ phases' = [phases EXCEPT !.stage = "finalizing",
                              !.published =
                                Append(@, Progress("finalizing", enc_done_pct(phases.container)))]
  /\ UNCHANGED <<jobVars, media, key_in_cache, progVars, detectVars, chooseVars, bitrate, tests,
                 input_has_audio, smoke, hw_calls>>

\* worker.py:894-896: the output has been verified.
Publish_verify_pct ==
  /\ phases.stage = "finalizing"
  /\ phases' = [phases EXCEPT !.stage = "verified",
                              !.published =
                                Append(@, Progress("finalizing", verify_pct(phases.container)))]
  /\ UNCHANGED <<jobVars, media, key_in_cache, progVars, detectVars, chooseVars, bitrate, tests,
                 input_has_audio, smoke, hw_calls>>

\* worker.py:938-939: the size retry resets the progress.
PublishRetryReset ==
  /\ phases.stage = "verified"
  /\ phases' = [phases EXCEPT !.stage = "retry", !.retried = TRUE, !.samples = 0,
                              !.published = Append(@, Progress("encoding", RetryReset.value))]
  /\ UNCHANGED <<jobVars, media, key_in_cache, progVars, detectVars, chooseVars, bitrate, tests,
                 input_has_audio, smoke, hw_calls>>

\* worker.py:1006-1008: before the history is saved, with or without a
\* retry behind.
Publish_presave_pct ==
  /\ \/ phases.stage = "verified"
     \/ phases.stage = "encoding" /\ phases.retried
  /\ phases' = [phases EXCEPT !.stage = "presave",
                              !.published =
                                Append(@, Progress("finalizing", presave_pct(phases.container)))]
  /\ UNCHANGED <<jobVars, media, key_in_cache, progVars, detectVars, chooseVars, bitrate, tests,
                 input_has_audio, smoke, hw_calls>>

\* worker.py:1062.
PublishDone ==
  /\ phases.stage = "presave"
  /\ phases' = [phases EXCEPT !.stage = "done",
                              !.published = Append(@, Progress("done", 10000))]
  /\ UNCHANGED <<jobVars, media, key_in_cache, progVars, detectVars, chooseVars, bitrate, tests,
                 input_has_audio, smoke, hw_calls>>

InitPhases ==
  /\ \E container \in {"mkv", "mp4", "mp4_fast"} :
       phases = [stage |-> "started", container |-> container, retried |-> FALSE,
                 samples |-> 0, published |-> <<>>]
  /\ bitrate = NoBitrate
  /\ tests = EmptyDict
  /\ hw_calls = NoCalls
  /\ smoke = NoSmoke
  /\ input_has_audio = TRUE
  /\ hw_info \in JobHwInfos
  /\ video_codec = "libx264"
  /\ media \in JobMedia
  /\ JobStart
  /\ key_in_cache = FALSE
  /\ ProgressStart
  /\ DetectStart
  /\ ChooseStart

NextPhases ==
  \/ PublishBump
  \/ PublishSample
  \/ Publish_enc_done_pct
  \/ Publish_verify_pct
  \/ PublishRetryReset
  \/ Publish_presave_pct
  \/ PublishDone

SpecPhases == InitPhases /\ [][NextPhases]_vars

(***************************************************************************)
(* test_encoder_init (startup_tests.py:133-197): the encode smoke test of  *)
(* one encoder.                                                            *)
(***************************************************************************)
SmokeEncoders == {"libx264", "libx265", "libaom-av1", "h264_nvenc", "hevc_qsv", "av1_vaapi"}

\* What subprocess.run did: it timed out, raised another exception, or
\* returned with an exit status and a stderr in which some of the phrases the
\* function looks for occur.
SmokeRuns ==
  {[status |-> "timeout", returncode |-> 0, stderr |-> {}],
   [status |-> "exception", returncode |-> 0, stderr |-> {}]}
    \cup [status : {"returned"}, returncode : {0, 1},
          stderr : SUBSET {"operation not permitted", "unknown encoder",
                           "no nvenc capable devices found", "error"}]

\* The exit status decides before the text of stderr is looked at.
test_encoder_init_ExitFirst(encoder_name, run) ==
  IF run.status = "timeout" THEN [success |-> FALSE, message |-> "Encode timeout (>10s)"]
  ELSE IF run.status = "exception" THEN [success |-> FALSE, message |-> "Exception"]
  ELSE IF run.returncode # 0 THEN [success |-> FALSE, message |-> "Exit code"]
  ELSE IF "operation not permitted" \in run.stderr THEN
    IF StartsWithLib(encoder_name)
    THEN [success |-> TRUE, message |-> "OK (seccomp bypass)"]
    ELSE [success |-> FALSE, message |-> "Operation not permitted"]
  ELSE [success |-> TRUE, message |-> "Encode OK"]

test_encoder_init(encoder_name, run) ==
  IF run.status = "timeout" THEN [success |-> FALSE, message |-> "Encode timeout (>10s)"]
  ELSE IF run.status = "exception" THEN [success |-> FALSE, message |-> "Exception"]
  ELSE IF "operation not permitted" \in run.stderr THEN
    IF StartsWithLib(encoder_name)
    THEN [success |-> TRUE, message |-> "OK (seccomp bypass)"]
    ELSE [success |-> FALSE, message |-> "Operation not permitted"]
  ELSE IF "unknown encoder" \in run.stderr THEN
    [success |-> FALSE, message |-> "Unknown encoder"]
  ELSE IF "no nvenc capable devices found" \in run.stderr THEN
    [success |-> FALSE, message |-> "No NVENC device"]
  ELSE IF run.returncode # 0 THEN
    IF "error" \in run.stderr
    THEN [success |-> FALSE, message |-> "error_lines[0][:60]"]
    ELSE [success |-> FALSE, message |-> "Exit code"]
  ELSE [success |-> TRUE, message |-> "Encode OK"]

InitSmoke ==
  /\ \E encoder_name \in SmokeEncoders, run \in SmokeRuns :
       smoke = [stage |-> "called", encoder_name |-> encoder_name, run |-> run]
  /\ bitrate = NoBitrate
  /\ tests = EmptyDict
  /\ phases = NoPhases
  /\ hw_calls = NoCalls
  /\ input_has_audio = TRUE
  /\ hw_info \in JobHwInfos
  /\ video_codec = "libx264"
  /\ media \in JobMedia
  /\ JobStart
  /\ key_in_cache = FALSE
  /\ ProgressStart
  /\ DetectStart
  /\ ChooseStart

EncoderSmokeTest ==
  /\ smoke.stage = "called"
  /\ smoke' = [stage |-> "returned", encoder_name |-> smoke.encoder_name, run |-> smoke.run,
               result |-> test_encoder_init(smoke.encoder_name, smoke.run)]
  /\ UNCHANGED <<jobVars, media, key_in_cache, progVars, detectVars, chooseVars, bitrate, tests,
                 phases, input_has_audio, hw_calls>>

SpecSmoke == InitSmoke /\ [][EncoderSmokeTest]_vars

(***************************************************************************)
(* Properties.                                                             *)
(***************************************************************************)
ProcsOfKind(kind) == {i \in DOMAIN procs : procs[i].kind = kind}
Active == {i \in DOMAIN procs : procs[i].state \in {"running", "terminating"}}
Published(type, tag) == \E i \in DOMAIN events : events[i] = Ev(type, tag)
LastEvent == events[Len(events)]

\* C1: if at selection the cache holds a failing record under the key of the
\* hardware encoder the requested codec resolves to, the first process the
\* job launches does not use that encoder.
C1_FailingHwEncoderNotFirst ==
  (procs # <<>> /\ failing_at_select /\ IsHardwareEncoder(original_encoder))
    => procs[1].cmd.encoder # original_encoder

C1_Witness ==
  /\ procs # <<>>
  /\ procs[1].kind = "initial"
  /\ failing_at_select
  /\ IsHardwareEncoder(original_encoder)

\* The cancel flag has been seen by run_ffmpeg_and_stream in this job.
CancelObserved == \E i \in DOMAIN procs : procs[i].cancelled

\* C2: once the cancel flag has been observed during an attempt (initial,
\* fallback or retry), the job launches no further process and ends as
\* Cancelled, with no history entry, no done event and no progress event of
\* phase done.
C2_ObservedCancelEndsCancelled ==
  CancelObserved =>
    /\ Current.cancelled
    /\ pc \in {"term_wait", "returned", "end"}
    /\ pc = "end" => outcome = "Cancelled"
    /\ history = 0
    /\ ~Published("done", "")
    /\ ~Published("progress", "done")

C2_Witness ==
  /\ outcome = "Cancelled"
  /\ \E i \in DOMAIN procs : procs[i].kind = "retry" /\ procs[i].cancelled

InitialHwFailure ==
  /\ procs # <<>>
  /\ procs[1].kind = "initial"
  /\ IsHardwareEncoder(procs[1].cmd.encoder)
  /\ procs[1].state = "exited"
  /\ procs[1].rc # 0
  /\ ~procs[1].cancelled

\* C4: a CPU fallback is launched exactly when the initial attempt used a
\* hardware encoder, exited non-zero and was not cancelled, and at most once;
\* a CPU attempt (initial or fallback) that exits non-zero without having
\* been cancelled ends the job as Failed with an error event and no further
\* attempt.
C4_FallbackExactlyOnHwFailure ==
  /\ Cardinality(ProcsOfKind("fallback")) <= 1
  /\ ProcsOfKind("fallback") # {} =>
       /\ InitialHwFailure
       /\ procs[2].kind = "fallback"
       /\ ~IsHardwareEncoder(procs[2].cmd.encoder)
  /\ (InitialHwFailure /\ Len(procs) = 1) =>
       \/ pc \in {"stream", "returned"}
       \/ pc = "start" /\ attempt = "fallback"
  /\ \A i \in ProcsOfKind("initial") \cup ProcsOfKind("fallback") :
       (/\ ~IsHardwareEncoder(procs[i].cmd.encoder)
        /\ procs[i].state = "exited"
        /\ procs[i].rc # 0
        /\ ~procs[i].cancelled)
       => /\ Len(procs) = i
          /\ \/ pc \in {"stream", "returned"}
             \/ /\ pc = "end"
                /\ outcome = "Failed"
                /\ LastEvent = Ev("error", "ffmpeg")

C4_Witness ==
  /\ Len(procs) = 2
  /\ procs[2].kind = "fallback"
  /\ procs[2].rc # 0
  /\ outcome = "Failed"

\* C5: a job launches at most 4 encoder processes: one initial attempt, at
\* most one CPU fallback and at most 2 size retries.
C5_AtMostFourProcesses ==
  /\ Len(procs) <= 4
  /\ Cardinality(ProcsOfKind("initial")) <= 1
  /\ Cardinality(ProcsOfKind("fallback")) <= 1
  /\ Cardinality(ProcsOfKind("retry")) <= max_retries

C5_Witness ==
  /\ Len(procs) = 3
  /\ procs[2].kind = "fallback"
  /\ procs[3].kind = "retry"

\* C6: with the retry counter at its bound and the verified output more than
\* 2% over the target, no re-encode is launched: the output is kept, a
\* warning is logged and the job finishes with a done event.
C6_NoRetryAtBound ==
  (retry_attempt >= max_retries /\ Oversize(final_size_mb)) =>
    /\ ProcsOfKind("retry") = {}
    /\ pc \in {"finalize", "end"}
    /\ Published("log", "keeping_best_result")
    /\ file = "ready" /\ file_size = final_size_mb
    /\ pc = "end" => (outcome = "Done" /\ LastEvent = Ev("done", ""))

C6_Witness ==
  /\ outcome = "Done"
  /\ retry_attempt = max_retries
  /\ Oversize(final_size_mb)

\* C7 as claimed: a job delivered with a retry counter of 0 whose first
\* retry output is still more than 2% over the target has performed a
\* second retry when its result is accepted.
C7_SecondRetryWhenStillOversize ==
  (/\ outcome = "Done"
   /\ retry_attempt = 0
   /\ ProcsOfKind("retry") # {}
   /\ Current.rc = 0
   /\ file = "ready" /\ final_size_mb = file_size
   /\ Oversize(final_size_mb))
  => Cardinality(ProcsOfKind("retry")) = 2

\* C8 as claimed: no job ends because a publish raised.
C8_PublishFailureNeverEndsJob ==
  ~(outcome = "Failed" /\ fail_cause = "publish")

\* C9: at most one encoder process of the job is active at any instant.
C9_OneActiveProcess == Cardinality(Active) <= 1

C9_Witness ==
  /\ Len(procs) >= 2
  /\ Current.state = "running"
  /\ \A i \in 1..(Len(procs) - 1) : procs[i].state \in {"exited", "killed"}

\* C10: the verification poll makes at most 50 checks and always ends; when
\* it is exhausted the job ends as Failed with an error event, and emits no
\* done event.
C10_BoundedPollThenFailed ==
  /\ [](polls <= PollChecks)
  /\ [][(pc = "verify" /\ polls = PollChecks /\ pc' # "verify")
          => (outcome' = "Failed" /\ events' = Append(events, Ev("error", "not_accessible")))]_vars
  /\ [](fail_cause = "not_accessible" => (outcome = "Failed" /\ ~Published("done", "")))
  /\ (pc = "verify" ~> pc # "verify")

C10_Witness ==
  /\ outcome = "Failed"
  /\ fail_cause = "not_accessible"
  /\ polls = PollChecks

C12_CancelledEmitsNoError ==
  outcome = "Cancelled" =>
    /\ Published("canceled", "")
    /\ \A i \in DOMAIN events : events[i].type # "error"

\* The job is past its selection step (worker.py:165-197).
Selected == pc \in {"prepare", "start", "stream"}

FirstAttemptLaunched == procs # <<>> /\ procs[1].kind = "initial"

\* C14: when the cache holds a failing record under the exact key of the
\* resolved hardware encoder, the first attempt runs the CPU encoder of the
\* same family with its standard flags and no init flags: h264 -> libx264
\* (-pix_fmt yuv420p -profile:v high), hevc -> libx265 (-pix_fmt yuv420p),
\* av1 -> libaom-av1 (-pix_fmt yuv420p).
C14_FailingRecordUsesCpuOfFamily ==
  (FirstAttemptLaunched /\ failing_at_select /\ IsHardwareEncoder(original_encoder)) =>
    LET c == procs[1].cmd
    IN /\ c.init_hw_flags = <<>>
       /\ original_encoder \in
            {"h264_nvenc", "h264_qsv", "h264_vaapi", "hevc_nvenc", "hevc_qsv", "hevc_vaapi",
             "av1_nvenc", "av1_qsv", "av1_vaapi"}
       /\ original_encoder \in {"h264_nvenc", "h264_qsv", "h264_vaapi"} =>
            /\ c.encoder = "libx264"
            /\ c.v_flags = <<"-pix_fmt", "yuv420p", "-profile:v", "high">>
       /\ original_encoder \in {"hevc_nvenc", "hevc_qsv", "hevc_vaapi"} =>
            /\ c.encoder = "libx265"
            /\ c.v_flags = <<"-pix_fmt", "yuv420p">>
       /\ original_encoder \in {"av1_nvenc", "av1_qsv", "av1_vaapi"} =>
            /\ c.encoder = "libaom-av1"
            /\ c.v_flags = <<"-pix_fmt", "yuv420p">>

C14_Witness ==
  /\ FirstAttemptLaunched
  /\ failing_at_select
  /\ video_codec = "av1_nvenc"
  /\ procs[1].cmd.encoder = "libaom-av1"

\* The cache holds no failing record under the key of the resolved encoder:
\* no record at all, or a passing one.
NoFailingRecord ==
  LET m == map_codec_to_hw(video_codec, hw_info)
      key == cache_key(m.encoder, m.init_flags)
  IN key \in DOMAIN ENCODER_TEST_CACHE => ENCODER_TEST_CACHE[key]

\* C15 as claimed: with no record or a passing record for the resolved
\* hardware encoder, the first attempt runs exactly the resolved encoder with
\* the resolved video flags and init flags.
C15_ResolvedTripleUnchanged ==
  (FirstAttemptLaunched /\ IsHardwareEncoder(original_encoder) /\ NoFailingRecord) =>
    LET m == map_codec_to_hw(video_codec, hw_info)
        c == procs[1].cmd
    IN c.encoder = m.encoder /\ c.v_flags = m.flags /\ c.init_hw_flags = m.init_flags

\* C15, amended: with no record or a passing record the first attempt runs
\* the resolved hardware encoder, never a CPU one; its init flags are the
\* resolved ones, preceded by the CUDA decode flags for an NVENC encoder on
\* H.264 input or AV1 input with av1_cuvid; its video flags are the resolved
\* ones, without -pix_fmt under CUDA decode, and followed by a second -vf
\* for VAAPI with scaling; and selection is never blocked on the cache.
C15_OptimisticHardwareAttempt ==
  /\ pc = "select" => ENABLED SelectEncoder
  /\ (FirstAttemptLaunched /\ IsHardwareEncoder(original_encoder) /\ NoFailingRecord) =>
       LET m == map_codec_to_hw(video_codec, hw_info)
           c == procs[1].cmd
           cuda == /\ m.encoder \in {"h264_nvenc", "hevc_nvenc", "av1_nvenc"}
                   /\ \/ media.in_codec = "h264"
                      \/ media.in_codec = "av1" /\ media.av1_cuvid
           vaapi_scaled == /\ m.encoder \in {"h264_vaapi", "hevc_vaapi", "av1_vaapi"}
                           /\ media.vf_filters
       IN /\ c.encoder = m.encoder
          /\ c.init_hw_flags =
               (IF cuda THEN <<"-hwaccel", "cuda", "-hwaccel_output_format", "cuda">>
                ELSE <<>>) \o m.init_flags
          /\ c.v_flags =
               (IF cuda THEN SelectSeq(m.flags, LAMBDA f : f \notin {"-pix_fmt", "yuv420p"})
                ELSE IF vaapi_scaled
                  THEN m.flags \o <<"-vf", "scale,format=nv12|vaapi,hwupload">>
                ELSE m.flags)

C15_Witness ==
  /\ FirstAttemptLaunched
  /\ ENCODER_TEST_CACHE = EmptyDict
  /\ video_codec = "h264"
  /\ hw_info.type = "nvidia"
  /\ media.in_codec = "h264"
  /\ procs[1].cmd.encoder = "h264_nvenc"
  /\ procs[1].cmd.v_flags = <<"-profile:v", "high">>

\* C16: however the writes of the cache interleave with the two reads of
\* the selection step, the (encoder, video flags, init flags) the step
\* leaves is the complete resolved triple or the complete CPU triple of the
\* resolved encoder's family, a downgrade happens only on a failing record
\* read from the cache, and the job has not failed.
C16_RaceLeavesCompleteTriple ==
  /\ pc \in {"select", "select_lookup", "prepare"} => outcome = "None"
  /\ pc = "prepare" =>
       LET m == map_codec_to_hw(video_codec, hw_info)
           t == <<actual_encoder, v_flags, init_hw_flags>>
           cpu == IF ContainsH264(m.encoder)
                    THEN <<"libx264", <<"-pix_fmt", "yuv420p", "-profile:v", "high">>, <<>> >>
                  ELSE IF ContainsHevc(m.encoder)
                    THEN <<"libx265", <<"-pix_fmt", "yuv420p">>, <<>> >>
                  ELSE <<"libaom-av1", <<"-pix_fmt", "yuv420p">>, <<>> >>
       IN /\ t = <<m.encoder, m.flags, m.init_flags>> \/ t = cpu
          /\ t # <<m.encoder, m.flags, m.init_flags>> => failing_at_select
          /\ failing_at_select => t = cpu

\* The failing record of the resolved encoder was written between the two
\* reads: the first read did not find the key, and the job goes on with the
\* complete hardware triple.
C16_Witness ==
  /\ pc = "prepare"
  /\ ~key_in_cache
  /\ original_encoder = "h264_qsv"
  /\ actual_encoder = "h264_qsv"
  /\ init_hw_flags = QsvInitFlags
  /\ cache_key("h264_qsv", QsvInitFlags) \in DOMAIN ENCODER_TEST_CACHE
  /\ ~ENCODER_TEST_CACHE[cache_key("h264_qsv", QsvInitFlags)]

\* C17 as claimed: detect_hw_accel never raises to its caller.
C17_DetectNeverRaises == ~detected.raised

\* C18 as claimed: the type of a detected capability is one of nvidia,
\* intel, amd, vaapi, cpu.
C18_TypeIsKnown ==
  hw_info # NoHwInfo => hw_info.type \in {"nvidia", "intel", "amd", "vaapi", "cpu"}

\* The candidates of a family, and what is known of each.
FamilyCandidates(base) ==
  LET cands == Candidates(hw_info, cache_arg)
  IN {cands[i] : i \in {i \in DOMAIN cands : cands[i].base = base}}

Record(c) == EncoderPassed(c.base, c.encoder, c.init_flags, cache_arg, redis_tests)

\* C19 as claimed: the choice is never a hardware encoder whose record is
\* failing, and in the chosen family a hardware candidate with a passing
\* record is preferred, else a hardware candidate with no record, else the
\* CPU encoder.
C19_FamilyPreference ==
  preferred # NoChoice =>
    /\ ~(~StartsWithLib(preferred.encoder) /\ Record(preferred) = "fail")
    /\ LET family == FamilyCandidates(preferred.base)
           hw_pass == {c \in family : c.hardware /\ Record(c) = "pass"}
           hw_unknown == {c \in family : c.hardware /\ Record(c) = "unknown"}
       IN /\ hw_pass # {} => preferred.encoder \in {c.encoder : c \in hw_pass}
          /\ (hw_pass = {} /\ hw_unknown # {}) =>
               preferred.encoder \in {c.encoder : c \in hw_unknown}

\* C20 as claimed: when every candidate of the three families is a hardware
\* encoder with a failing record, the choice is libx264 with hardware false.
C20_DefaultIsCpuH264 ==
  (/\ preferred # NoChoice
   /\ \A b \in {"av1", "hevc", "h264"} :
        \A c \in FamilyCandidates(b) : c.hardware /\ Record(c) = "fail")
  => (preferred.encoder = "libx264" /\ ~preferred.hardware)

\* C24 as claimed: within one job an error event is never followed by a
\* done event.
C24_ErrorNeverFollowedByDone ==
  \A i, j \in DOMAIN events :
    (i < j /\ events[i].type = "error") => events[j].type # "done"

\* C25 as claimed: once a video job has published done, the output file
\* exists, is not empty, and the reported final_size_mb is its size.
C25_DoneFileHasReportedSize ==
  (Published("done", "") /\ ProcsOfKind("audio") = {}) =>
    /\ file = "ready"
    /\ file_size > 0
    /\ final_size_mb = file_size

\* C26 as claimed: a size retry is launched with the encoder of the attempt
\* that produced the oversized output, the one launched just before it.
C26_RetryUsesEncoderOfOversizedAttempt ==
  \A i \in ProcsOfKind("retry") :
    i > 1 /\ procs[i].cmd.encoder = procs[i - 1].cmd.encoder

\* The retry events published so far, and whether a retry is about to be
\* launched.
RetryEvents == {i \in DOMAIN events : events[i].type = "retry"}
RetryLaunchDue == pc = "start" /\ attempt = "retry"

Holds(args, a) == \E i \in DOMAIN args : args[i] = a

\* C27 as claimed: the command of a CPU fallback has no hardware init flags,
\* does not select the av1_cuvid decoder in its input options and has no
\* scale_npp filter.
C27_FallbackHasNoAcceleratorElement ==
  \A i \in ProcsOfKind("fallback") :
    /\ procs[i].cmd.init_hw_flags = <<>>
    /\ ~Holds(procs[i].cmd.input_opts, "av1_cuvid")
    /\ procs[i].cmd.vf # "scale_npp"

\* The scale filter of a command: its own -vf, or the one merged into the
\* -vf of the VAAPI flags.
ScaleOf(c) ==
  IF c.vf # "None" THEN c.vf
  ELSE IF Holds(c.v_flags, "scale,format=nv12|vaapi,hwupload") THEN "scale"
  ELSE "None"

\* C28: the command of a CPU fallback has the input options (seek and
\* decoder), the duration options, the scale filter, the bitrate values, the
\* audio options and the container flags of the initial command.
C28_FallbackKeepsTheRest ==
  \A i \in ProcsOfKind("fallback") :
    /\ i = 2 /\ procs[1].kind = "initial"
    /\ procs[i].cmd.input_opts = procs[1].cmd.input_opts
    /\ procs[i].cmd.duration_opts = procs[1].cmd.duration_opts
    /\ procs[i].cmd.vf = ScaleOf(procs[1].cmd)
    /\ procs[i].cmd.rate = procs[1].cmd.rate
    /\ procs[i].cmd.audio = procs[1].cmd.audio
    /\ procs[i].cmd.mp4_flags = procs[1].cmd.mp4_flags
    /\ procs[i].cmd.encoder # procs[1].cmd.encoder

C28_Witness ==
  /\ Len(procs) = 2
  /\ procs[2].kind = "fallback"
  /\ procs[2].cmd.input_opts = <<"-ss", "start_time", "-c:v", "av1_cuvid">>
  /\ procs[2].cmd.duration_opts = <<"-t", "duration_sec">>
  /\ procs[2].cmd.audio = <<"-an">>
  /\ procs[2].cmd.mp4_flags = <<"-movflags", "+faststart">>

\* C21: for a positive duration the budget is total_kbps = target_mb * 8192 /
\* duration and video_kbps = max(total_kbps - audio_kbps, 0); for a duration
\* of 0 or less both are 0; 10 MB over 100 s with 128 kbps of audio give
\* 819.2 and 691.2 kbps. The worker's function and the API's agree.
C21_BudgetOfTheTarget ==
  bitrate.stage \in {"estimated", "built"} =>
    LET request == bitrate.request
        total == bitrate.total_kbps
        video == bitrate.video_kbps
    IN /\ total.den > 0 /\ video.den > 0
       /\ request.duration > 0 =>
            /\ total.num * request.duration = request.target_size_mb * 8192 * total.den
            /\ IF total.num >= request.audio_bitrate_kbps * total.den
               THEN video.num * total.den =
                      (total.num - request.audio_bitrate_kbps * total.den) * video.den
               ELSE video.num = 0
       /\ request.duration <= 0 => (total.num = 0 /\ video.num = 0)
       /\ (/\ request.target_size_mb = 10
           /\ request.duration = 100
           /\ request.audio_bitrate_kbps = 128)
          => (total.num * 10 = 8192 * total.den /\ video.num * 10 = 6912 * video.den)

C21_Witness ==
  /\ bitrate.stage = "built"
  /\ bitrate.request.target_size_mb = 10
  /\ bitrate.request.duration = 100
  /\ bitrate.request.audio_bitrate_kbps = 128
  /\ bitrate.video_kbps = Frac(3456, 5)

KeyOf(codec) ==
  cache_key(map_codec_to_hw(codec, hw_info).encoder, map_codec_to_hw(codec, hw_info).init_flags)

\* C23 as claimed: after a run of the battery, the record the job selection
\* reads under the key of a tested encoder is true exactly when its encode
\* test passed and its decode test, if it has one, passed; and it is the flag
\* stored in Redis for the codec.
C23_CacheIsOverallResult ==
  \A c \in DOMAIN tests :
    KeyOf(c) \in DOMAIN ENCODER_TEST_CACHE =>
      /\ ENCODER_TEST_CACHE[KeyOf(c)] =
           (tests[c].available /\ tests[c].encode /\ tests[c].decode # "fail")
      /\ c \in DOMAIN redis_tests.flags =>
           ENCODER_TEST_CACHE[KeyOf(c)] = (redis_tests.flags[c] = "1")

C32_RestartResetsAccumulators ==
  /\ (sample.kind = "time" /\ sample.restart)
       => sample.size = 0 /\ sample.speed = 0 /\ sample.previous = 0
  /\ (sample.kind = "time" /\ sample.restarted)
       => sample.elapsed = sample.now - sample.time_start

\* C33: a sample that passed the suppression filter is published exactly when
\* its progress differs from the previously reported progress by at least the
\* minimum step (0.025% for this 10 s input), or at least 2 s of wall clock
\* have passed since the last published update, or the progress has reached
\* the end of the encoding portion.
C33_EmittedIfChanged ==
  (sample.kind = "time" /\ sample.passed)
    => (sample.emitted <=>
          \/ 2 * (sample.scaled - sample.previous) >= 5
          \/ 2 * (sample.previous - sample.scaled) >= 5
          \/ sample.since >= 2
          \/ sample.scaled >= encoding_portion - 10)

\* The progress events of phase encoding below 3% that the attempts have
\* published: positions in emitted.
EarlyEvents ==
  {i \in DOMAIN emitted : emitted[i].type \in {"progress", "retry_reset"} /\ emitted[i].value < 300}

SampleFiltered ==
  (sample.kind = "time" /\ sample.emitted)
    => sample.scaled >= 300 /\ sample.size > 100000 /\ sample.speed # 0

\* C34 as stated: no sample is published with a scaled progress below 3%, with
\* at most 100000 output bytes or without a speed value, and the job publishes
\* a single event below that: the 0.1% bump.
C34_OnlyOneEarlyBump ==
  /\ SampleFiltered
  /\ Cardinality(EarlyEvents) <= 1
  /\ \A i \in EarlyEvents : emitted[i] = ProgressEvent(10, 0, FALSE, 0)

\* C34, amended: no sample is published with a scaled progress below 3%, with
\* at most 100000 output bytes or without a speed value; the events below 3%
\* are the 1.0% reset that opens a size retry and the 0.1% bump, published at
\* most once per attempt: on the first output line of the job, of a size
\* retry, or of a fallback whose failed attempt had detected a restart.
C34_SuppressedUntilPlausible ==
  /\ SampleFiltered
  /\ \A i \in DOMAIN emitted :
       /\ (emitted[i].type = "progress" /\ emitted[i].value < 300)
            => /\ emitted[i] = ProgressEvent(10, 0, FALSE, 0)
               /\ \/ i = 1
                  \/ emitted[i - 1] = RetryReset
                  \/ attempt = "fallback" /\ \E j \in 1..(i - 1) : emitted[j] = RestartEvent
       /\ emitted[i] = RetryReset => attempt = "retry"
  /\ Cardinality({i \in DOMAIN emitted : emitted[i] = RetryReset}) <= 1
  /\ Cardinality({i \in DOMAIN emitted : emitted[i] = ProgressEvent(10, 0, FALSE, 0)})
       <= IF attempt = "None" THEN 1 ELSE 2

C34_Witness ==
  /\ Len(emitted) = 3
  /\ emitted[1] = ProgressEvent(10, 0, FALSE, 0)
  /\ emitted[2] = RetryReset
  /\ emitted[3] = ProgressEvent(10, 0, FALSE, 0)
  /\ sample.kind = "time"
  /\ sample.scaled >= 300
  /\ sample.size <= 100000
  /\ ~sample.passed

\* C35: every published progress value lies in 0..100; an event of phase
\* encoding is at most the encoding portion of the container (98.5, 90 or
\* 96), the values of phase finalizing lie between the encoding portion and
\* 100 and never decrease, and 100 comes only with phase done.
C35_ProgressWithinItsPhase ==
  phases.stage # "None" =>
    \A i \in DOMAIN phases.published :
      LET e == phases.published[i]
          portion == IF phases.container = "mp4_fast" THEN 9850
                     ELSE IF phases.container = "mp4" THEN 9000 ELSE 9600
      IN /\ e.progress \in 0..10000
         /\ e.phase \in {"encoding", "finalizing", "done"}
         /\ e.phase = "encoding" => e.progress <= portion
         /\ e.phase = "finalizing" =>
              /\ e.progress >= portion
              /\ e.progress <= 10000
              /\ \A j \in 1..(i - 1) :
                   phases.published[j].phase = "finalizing"
                     => phases.published[j].progress <= e.progress
         /\ e.progress = 10000 => e.phase = "done"

C35_Witness ==
  /\ phases.stage = "done"
  /\ phases.retried
  /\ phases.container = "mp4"
  /\ \E i \in DOMAIN phases.published :
       phases.published[i] = Progress("encoding", 9000)
  /\ \E i \in DOMAIN phases.published :
       phases.published[i] = Progress("finalizing", 9750)

\* C36: hardware detection runs at most once in the life of a process:
\* detect_hw_accel is executed by the first get_hw_info call only, also when
\* the startup validation thread and a task call concurrently, and every call
\* that has returned has returned the same capability.
C36_DetectedAtMostOnce ==
  /\ hw_calls.detect_runs <= 1
  /\ \A t, u \in DOMAIN hw_calls.threads :
       (hw_calls.threads[t].pc = "returned" /\ hw_calls.threads[u].pc = "returned")
         => hw_calls.threads[t].returned = hw_calls.threads[u].returned

\* The accelerator a capability belongs to, and the encoders of each.
AcceleratorOf(info) ==
  IF info.decode_method = "cuda" THEN "nvidia"
  ELSE IF info.decode_method = "qsv" THEN "qsv"
  ELSE IF info.decode_method = "vaapi" THEN "vaapi"
  ELSE "cpu"

EncodersOf(accelerator) ==
  IF accelerator = "nvidia" THEN {"h264_nvenc", "hevc_nvenc", "av1_nvenc"}
  ELSE IF accelerator = "qsv" THEN {"h264_qsv", "hevc_qsv", "av1_qsv"}
  ELSE IF accelerator = "vaapi" THEN {"h264_vaapi", "hevc_vaapi", "av1_vaapi"}
  ELSE {"libx264", "libx265", "libaom-av1"}

\* The highest-priority accelerator whose check succeeded.
HighestPriority(p) ==
  IF CheckNvidia(p) = "yes" THEN "nvidia"
  ELSE IF CheckIntelQsv(p) = "yes" THEN "qsv"
  ELSE IF CheckVaapi(p).available THEN "vaapi"
  ELSE "cpu"

PriorityRespected ==
  /\ AcceleratorOf(hw_info) = HighestPriority(probe)
  /\ \A base \in DOMAIN hw_info.available_encoders :
       hw_info.available_encoders[base] \in EncodersOf(HighestPriority(probe))

\* C37: for every combination of probe results, once detect_hw_accel has run
\* it has returned the capability of the highest-priority accelerator whose
\* check succeeded (NVIDIA, then Quick Sync, then VAAPI, then CPU), with an
\* encoder map that names only that accelerator's encoders.
C37_HighestPriorityReturned ==
  (hw_calls = NoCalls /\ (hw_info # NoHwInfo \/ detected.raised))
    => ~detected.raised /\ PriorityRespected

\* C38: a job is rejected with the 'no audio stream' error only if its input
\* has no audio stream.
C38_RejectedOnlyWithoutAudio ==
  (outcome = "Failed" /\ fail_cause = "no_audio") => ~input_has_audio

\* C39: in the encode smoke test, when the output of the test process reports
\* 'operation not permitted', an encoder whose name starts with lib is marked
\* passing whatever the exit status, and any other encoder is marked failing.
C39_NotPermittedPassesOnCpuOnly ==
  (/\ smoke.stage = "returned"
   /\ smoke.run.status = "returned"
   /\ "operation not permitted" \in smoke.run.stderr)
    => (smoke.result.success <=> smoke.encoder_name \in {"libx264", "libx265", "libaom-av1"})

C39_Witness ==
  /\ smoke.stage = "returned"
  /\ smoke.encoder_name = "libx264"
  /\ smoke.run.status = "returned"
  /\ smoke.run.returncode = 1
  /\ smoke.run.stderr = {"operation not permitted", "unknown encoder", "error"}
  /\ smoke.result.success

=============================================================================
